---------------------------- MODULE Spec2Model ----------------------------
(***************************************************************************)
(* A model of the NFL grading engine: the player grader                    *)
(* (app/functions/players/grading.py, EnhancedNFLPlayerGrader) and the     *)
(* roster-aware coaching analytics (app/functions/coaching/grading.py,     *)
(* RosterAwareCoachingAnalytics).                                          *)
(*                                                                         *)
(* Python floats are modelled as exact rationals <<n, d>> with d > 0 in    *)
(* lowest terms; NaN is the pair <<0, 0>>.  Comparisons with NaN are       *)
(* false, and min/max follow the Python builtins (the first argument is    *)
(* kept unless the second compares strictly better).                       *)
(***************************************************************************)
EXTENDS Integers, Sequences, FiniteSets, TLC

VARIABLES
    op,               \* the operation that produced the current values
    row,              \* the record handed to a scoring function
    position_avg,     \* the position averages handed to a scoring function
    numeric_grade,    \* the number a scoring function returned
    letter_grade,     \* the letter a conversion returned
    pbp_data,         \* the grader's play-by-play rows
    defensive_weekly, \* the grader's per-player-week defensive table
    schedule_data,    \* the analytics' schedule rows
    coaching_data,    \* the analytics' (coach, season) records
    coach_pbp_data,   \* the analytics' play-by-play rows
    player_grades,    \* the analytics' per-player season table, or None
    call,             \* the arguments of the last analytics call
    grades,           \* what the last analytics call returned
    line_pbp,         \* the grader's run and pass plays, per team-week
    line_snap_counts, \* the grader's snap-count rows of line players
    request,          \* the arguments of the last grader or API call
    response,         \* what the last grader or API call returned
    returned,         \* what each call returned the first time it was made
    player_stats,     \* the collector's accumulated stats, per player key
    player_metadata,  \* the collector's player metadata cache
    play_count,       \* the plays the collector has processed
    player_grader,    \* the API's cached player grader, or None
    attempt,          \* the URL pattern the injury fetch is at
    requests_made     \* the requests the injury fetch has made

scoreVars == <<row, position_avg, numeric_grade, letter_grade>>
graderVars == <<pbp_data, defensive_weekly>>
coachVars ==
    <<schedule_data, coaching_data, coach_pbp_data, player_grades, call,
      grades>>

lineVars == <<line_pbp, line_snap_counts, request, response, returned>>

sourceVars ==
    <<player_stats, player_metadata, play_count, player_grader, attempt,
      requests_made>>

vars == <<op, scoreVars, graderVars, coachVars, lineVars, sourceVars>>

\* what an operation of one component leaves alone
notScoreVars == <<graderVars, coachVars, lineVars, sourceVars>>
notGraderVars == <<scoreVars, coachVars, lineVars, sourceVars>>
notCoachVars == <<scoreVars, graderVars, lineVars, sourceVars>>
notLineVars == <<scoreVars, graderVars, coachVars, sourceVars>>
notSourceVars == <<scoreVars, graderVars, coachVars, lineVars>>

---------------------------------------------------------------------------
(* Arithmetic of the Python numbers the code computes with.                *)

\* Each operator binds its arguments before it uses them (x \in {a}), so an
\* argument expression is evaluated once however often the body reads it.

Abs(x) == IF x < 0 THEN -x ELSE x

RECURSIVE Gcd(_, _)
Gcd(a, b) ==
    CHOOSE r \in {IF y = 0 THEN x ELSE Gcd(y, x % y) : x \in {a}, y \in {b}} :
        TRUE

NaN == <<0, 0>>

IsNaN(a) == a[2] = 0

\* the float n/d (d # 0), in lowest terms with a positive denominator
Frac(n, d) ==
    CHOOSE r \in
        { LET g == Gcd(IF x < 0 THEN -x ELSE x, IF y < 0 THEN -y ELSE y)
              s == IF y < 0 THEN -1 ELSE 1
          IN  <<(s * x) \div g, (s * y) \div g>> : x \in {n}, y \in {d} } :
        TRUE

R(n) == <<n, 1>>

Add(a, b) ==
    CHOOSE r \in
        { IF IsNaN(x) \/ IsNaN(y) THEN NaN
          ELSE Frac(x[1] * y[2] + y[1] * x[2], x[2] * y[2]) :
          x \in {a}, y \in {b} } : TRUE

Sub(a, b) ==
    CHOOSE r \in
        { IF IsNaN(x) \/ IsNaN(y) THEN NaN
          ELSE Frac(x[1] * y[2] - y[1] * x[2], x[2] * y[2]) :
          x \in {a}, y \in {b} } : TRUE

Mul(a, b) ==
    CHOOSE r \in
        { IF IsNaN(x) \/ IsNaN(y) THEN NaN
          ELSE Frac(x[1] * y[1], x[2] * y[2]) :
          x \in {a}, y \in {b} } : TRUE

\* a / b for b # 0
Div(a, b) ==
    CHOOSE r \in
        { IF IsNaN(x) \/ IsNaN(y) THEN NaN
          ELSE Frac(x[1] * y[2], x[2] * y[1]) :
          x \in {a}, y \in {b} } : TRUE

\* a < b; False when either side is NaN
Lt(a, b) ==
    \E x \in {a}, y \in {b} :
        ~IsNaN(x) /\ ~IsNaN(y) /\ x[1] * y[2] < y[1] * x[2]

\* a <= b; False when either side is NaN
Le(a, b) ==
    \E x \in {a}, y \in {b} :
        ~IsNaN(x) /\ ~IsNaN(y) /\ x[1] * y[2] <= y[1] * x[2]

\* the builtin min(a, b): a unless b < a
PyMin(a, b) ==
    CHOOSE r \in {IF Lt(y, x) THEN y ELSE x : x \in {a}, y \in {b}} : TRUE

\* the builtin max(a, b): a unless b > a
PyMax(a, b) ==
    CHOOSE r \in {IF Lt(x, y) THEN y ELSE x : x \in {a}, y \in {b}} : TRUE

---------------------------------------------------------------------------
(* EnhancedNFLPlayerGrader: the skill-position scoring functions.          *)

\* max(min(base_score, 100), 0)
ClampScore(base_score) == PyMax(PyMin(base_score, R(100)), R(0))

qb_base_score(r, avg) ==
    LET passing_yards_score ==
            PyMin(Mul(Div(R(r.passing_yards), PyMax(avg, R(180))), R(25)), R(35))
        completion_pct ==
            Div(R(r.completions), PyMax(R(r.attempts), R(1)))
        completion_pct_score ==
            PyMax(Mul(Sub(completion_pct, Frac(1, 2)), R(60)), R(0))
        td_score == R(r.passing_tds * 12)
        int_penalty == R(r.interceptions * (-8))
        efficiency_bonus ==
            IF r.attempts > 0
            THEN PyMax(Mul(Sub(Div(R(r.passing_yards), R(r.attempts)), R(6)), R(4)), R(0))
            ELSE R(0)
        attempt_bonus == PyMin(Mul(R(r.attempts), Frac(3, 10)), R(10))
    IN  Add(Add(Add(Add(Add(passing_yards_score, completion_pct_score), td_score),
                    int_penalty), efficiency_bonus), attempt_bonus)

_calculate_qb_grade_unclamped(r, avg) == qb_base_score(r, avg)

_calculate_qb_grade(r, avg) == ClampScore(qb_base_score(r, avg))

rb_base_score(r, avg) ==
    LET rushing_yards_score ==
            PyMin(Mul(Div(R(r.rushing_yards), PyMax(avg, R(80))), R(25)), R(35))
        ypc_score ==
            IF r.carries > 0
            THEN PyMin(Mul(Div(Div(R(r.rushing_yards), R(r.carries)), Frac(42, 10)),
                           R(20)), R(25))
            ELSE R(0)
        rushing_td_score == R(r.rushing_tds * 10)
        receiving_score ==
            Add(Mul(R(r.receiving_yards), Frac(15, 100)), R(r.receptions * 2))
        receiving_td_score == R(r.receiving_tds * 8)
    IN  Add(Add(Add(Add(rushing_yards_score, ypc_score), rushing_td_score),
                receiving_score), receiving_td_score)

_calculate_rb_grade(r, avg) == ClampScore(rb_base_score(r, avg))

wr_te_base_score(r, avg) ==
    LET receiving_yards_score ==
            PyMin(Mul(Div(R(r.receiving_yards), PyMax(avg, R(60))), R(30)), R(40))
        receptions_score == R(r.receptions * 3)
        receiving_td_score == R(r.receiving_tds * 12)
        catch_rate_score ==
            IF r.targets > 0
            THEN Mul(Div(R(r.receptions), R(r.targets)), R(15))
            ELSE R(0)
    IN  Add(Add(Add(receiving_yards_score, receptions_score), receiving_td_score),
            catch_rate_score)

_calculate_wr_te_grade(r, avg) == ClampScore(wr_te_base_score(r, avg))

\* base_score of _calculate_defensive_grade: 50 unless the group is one of
\* the two the function scores
defensive_base_score(r, avg, position_group) ==
    IF position_group = "LINEBACKER"
    THEN LET tackle_score ==
                 Mul(Div(R(r.total_tackles), PyMax(avg.total_tackles, R(3))), R(20))
             tfl_score ==
                 Mul(Div(R(r.tackles_for_loss),
                         PyMax(avg.tackles_for_loss, Frac(2, 10))), R(10))
             sack_score == Mul(r.sacks, R(12))
             int_score == R(r.interceptions * 15)
             ff_score == R(r.forced_fumbles * 8)
             pd_score == R(r.pass_deflections * 3)
         IN  Add(Add(Add(Add(Add(Add(tackle_score, tfl_score), sack_score),
                             int_score), ff_score), pd_score), R(15))
    ELSE IF position_group = "SECONDARY"
    THEN LET int_score == R(r.interceptions * 20)
             pd_score ==
                 Mul(Div(R(r.pass_deflections),
                         PyMax(avg.pass_deflections, Frac(1, 2))), R(15))
             tackle_score ==
                 Mul(Div(R(r.total_tackles), PyMax(avg.total_tackles, R(2))), R(8))
             ff_score == R(r.forced_fumbles * 12)
         IN  Add(Add(Add(Add(int_score, pd_score), tackle_score), ff_score), R(25))
    ELSE R(50)

_calculate_defensive_grade_unclamped(r, avg, position_group) ==
    defensive_base_score(r, avg, position_group)

_calculate_defensive_grade(r, avg, position_group) ==
    ClampScore(defensive_base_score(r, avg, position_group))

---------------------------------------------------------------------------
(* The player-week inputs the scoring functions are applied to.            *)

MaxTds == 4
MaxInts == 3
MaxAttemptTens == 4
MaxYardHundreds == 4
MaxCarryTens == 2
MaxReceptions == 3
MaxSackHalves == 3
MaxTackles == 5
MaxTakeaways == 2
MaxDeflections == 2

QBRows ==
    { [position |-> "QB", passing_yards |-> 100 * y, attempts |-> a,
       completions |-> c, passing_tds |-> t, interceptions |-> i] :
        y \in 0..MaxYardHundreds, t \in 0..MaxTds, i \in 0..MaxInts,
        a \in {0, 1} \cup {10 * k : k \in 1..MaxAttemptTens},
        c \in {0, 1} \cup {5 * k : k \in 1..(2 * MaxAttemptTens)} }

QBAverages == {R(0), R(180), R(240)}

RBRows ==
    { [position |-> "RB", rushing_yards |-> 40 * y, carries |-> c,
       rushing_tds |-> t, receiving_yards |-> 30 * ry, receptions |-> rc,
       receiving_tds |-> rt] :
        y \in 0..MaxYardHundreds, t \in 0..MaxTds, ry \in 0..2,
        c \in {0, 1} \cup {10 * k : k \in 1..MaxCarryTens},
        rc \in 0..MaxReceptions, rt \in 0..1 }

RBAverages == {R(0), R(80), R(100)}

WRRows ==
    { [position |-> pos, receiving_yards |-> 30 * y, receptions |-> rc,
       targets |-> rc + extra, receiving_tds |-> t] :
        pos \in {"WR", "TE"}, y \in 0..MaxYardHundreds, rc \in 0..MaxReceptions,
        extra \in {0, 1, 4}, t \in 0..MaxTds }

WRAverages == {R(0), R(60), R(75)}

\* a defender's player-week tally; sacks accumulate in halves
DefenseRows ==
    { [position_group |-> g, sacks |-> Frac(s, 2), total_tackles |-> t,
       tackles_for_loss |-> tfl, interceptions |-> i, pass_deflections |-> d,
       forced_fumbles |-> ff] :
        g \in {"LINEBACKER", "SECONDARY", "OTHER"}, s \in 0..MaxSackHalves,
        t \in 0..MaxTackles, tfl \in 0..1, i \in 0..MaxTakeaways,
        d \in 0..MaxDeflections, ff \in 0..1 }

DefenseAverages ==
    { [total_tackles |-> t, tackles_for_loss |-> tfl, pass_deflections |-> d] :
        t \in {Frac(1, 2), R(4)}, tfl \in {R(0), Frac(1, 2)},
        d \in {R(0), R(1)} }

\* the variables of a component that is not in use
IdleScore ==
    /\ row = [none |-> TRUE]
    /\ position_avg = R(0)
    /\ numeric_grade = R(0)
    /\ letter_grade = ""

IdleGrader ==
    /\ pbp_data = <<>>
    /\ defensive_weekly = {}

\* Python's None
None == [none |-> TRUE]

IdleCoach ==
    /\ schedule_data = <<>>
    /\ coaching_data = <<>>
    /\ coach_pbp_data = <<>>
    /\ player_grades = None
    /\ call = None
    /\ grades = None

IdleSource ==
    /\ player_stats = <<>>
    /\ player_metadata = <<>>
    /\ play_count = 0
    /\ player_grader = None
    /\ attempt = 0
    /\ requests_made = <<>>

IdleLine ==
    /\ line_pbp = <<>>
    /\ line_snap_counts = {}
    /\ request = None
    /\ response = None
    /\ returned = <<>>

---------------------------------------------------------------------------
(* Specification of the scoring functions: a player-week row and the       *)
(* position averages are drawn, then the position's function grades it.    *)

InitGrade ==
    /\ IdleSource
    /\ op = "input"
    /\ \/ row \in {r \in QBRows : r.completions <= r.attempts}
          /\ position_avg \in QBAverages
       \/ row \in RBRows /\ position_avg \in RBAverages
       \/ row \in WRRows /\ position_avg \in WRAverages
       \/ row \in DefenseRows /\ position_avg \in DefenseAverages
    /\ numeric_grade = R(0)
    /\ letter_grade = ""
    /\ IdleGrader
    /\ IdleCoach
    /\ IdleLine

GradeQB ==
    /\ op = "input"
    /\ "position" \in DOMAIN row
    /\ row.position = "QB"
    /\ op' = "qb"
    /\ numeric_grade' = _calculate_qb_grade(row, position_avg)
    /\ UNCHANGED <<row, position_avg, letter_grade, notScoreVars>>

GradeRB ==
    /\ op = "input"
    /\ "position" \in DOMAIN row
    /\ row.position = "RB"
    /\ op' = "rb"
    /\ numeric_grade' = _calculate_rb_grade(row, position_avg)
    /\ UNCHANGED <<row, position_avg, letter_grade, notScoreVars>>

GradeWRTE ==
    /\ op = "input"
    /\ "position" \in DOMAIN row
    /\ row.position \in {"WR", "TE"}
    /\ op' = "wr_te"
    /\ numeric_grade' = _calculate_wr_te_grade(row, position_avg)
    /\ UNCHANGED <<row, position_avg, letter_grade, notScoreVars>>

GradeDefender ==
    /\ op = "input"
    /\ "position_group" \in DOMAIN row
    /\ op' = "defense"
    /\ numeric_grade' =
           _calculate_defensive_grade(row, position_avg, row.position_group)
    /\ UNCHANGED <<row, position_avg, letter_grade, notScoreVars>>

NextGrade == GradeQB \/ GradeRB \/ GradeWRTE \/ GradeDefender

SpecGrade == InitGrade /\ [][NextGrade]_vars

\* C1 (as stated): every QB, RB and WR/TE grade lies within [25, 95].
C1_GradeWithin25To95 ==
    op \in {"qb", "rb", "wr_te"} =>
        Le(R(25), numeric_grade) /\ Le(numeric_grade, R(95))

\* C1 (amended): every QB, RB and WR/TE grade lies within [0, 100], the
\* range the three functions clamp their base score to.
C1_GradeWithin0To100 ==
    op \in {"qb", "rb", "wr_te"} =>
        Le(R(0), numeric_grade) /\ Le(numeric_grade, R(100))

\* a QB row whose base score exceeds 100 has been graded
C1_Witness ==
    /\ op = "qb"
    /\ Lt(R(100), qb_base_score(row, position_avg))
    /\ numeric_grade = R(100)

\* the defender formula of the claim: 55 + sacks*10 + int*12 + min(tackles*2, 15)
\* + deflections*4 + forced_fumbles*8, clamped to [30, 95]
SpecDefenderFormula(r) ==
    PyMax(PyMin(Add(Add(Add(Add(Add(R(55), Mul(r.sacks, R(10))),
                                R(r.interceptions * 12)),
                            PyMin(R(r.total_tackles * 2), R(15))),
                        R(r.pass_deflections * 4)),
                    R(r.forced_fumbles * 8)), R(95)), R(30))

---------------------------------------------------------------------------
(* Letter-grade conversion: the if-chain of the coaching analytics and     *)
(* the grade_scale table of the player grader.                             *)

\* RosterAwareCoachingAnalytics.get_letter_grade with the B+ and B branches
\* exchanged
get_letter_grade_swapped(numerical_grade) ==
    IF Le(R(97), numerical_grade) THEN "A+"
    ELSE IF Le(R(93), numerical_grade) THEN "A"
    ELSE IF Le(R(90), numerical_grade) THEN "A-"
    ELSE IF Le(R(87), numerical_grade) THEN "B"
    ELSE IF Le(R(83), numerical_grade) THEN "B+"
    ELSE IF Le(R(80), numerical_grade) THEN "B-"
    ELSE IF Le(R(77), numerical_grade) THEN "C+"
    ELSE IF Le(R(73), numerical_grade) THEN "C"
    ELSE IF Le(R(70), numerical_grade) THEN "C-"
    ELSE IF Le(R(67), numerical_grade) THEN "D+"
    ELSE IF Le(R(63), numerical_grade) THEN "D"
    ELSE IF Le(R(60), numerical_grade) THEN "D-"
    ELSE "F"

\* RosterAwareCoachingAnalytics.get_letter_grade
get_letter_grade(numerical_grade) ==
    IF Le(R(97), numerical_grade) THEN "A+"
    ELSE IF Le(R(93), numerical_grade) THEN "A"
    ELSE IF Le(R(90), numerical_grade) THEN "A-"
    ELSE IF Le(R(87), numerical_grade) THEN "B+"
    ELSE IF Le(R(83), numerical_grade) THEN "B"
    ELSE IF Le(R(80), numerical_grade) THEN "B-"
    ELSE IF Le(R(77), numerical_grade) THEN "C+"
    ELSE IF Le(R(73), numerical_grade) THEN "C"
    ELSE IF Le(R(70), numerical_grade) THEN "C-"
    ELSE IF Le(R(67), numerical_grade) THEN "D+"
    ELSE IF Le(R(63), numerical_grade) THEN "D"
    ELSE IF Le(R(60), numerical_grade) THEN "D-"
    ELSE "F"

\* NFLCoachingAnalytics.get_letter_grade (coach_grading.py), the same chain
NFLCoachingAnalytics_get_letter_grade(numerical_grade) ==
    IF Le(R(97), numerical_grade) THEN "A+"
    ELSE IF Le(R(93), numerical_grade) THEN "A"
    ELSE IF Le(R(90), numerical_grade) THEN "A-"
    ELSE IF Le(R(87), numerical_grade) THEN "B+"
    ELSE IF Le(R(83), numerical_grade) THEN "B"
    ELSE IF Le(R(80), numerical_grade) THEN "B-"
    ELSE IF Le(R(77), numerical_grade) THEN "C+"
    ELSE IF Le(R(73), numerical_grade) THEN "C"
    ELSE IF Le(R(70), numerical_grade) THEN "C-"
    ELSE IF Le(R(67), numerical_grade) THEN "D+"
    ELSE IF Le(R(63), numerical_grade) THEN "D"
    ELSE IF Le(R(60), numerical_grade) THEN "D-"
    ELSE "F"

\* EnhancedNFLPlayerGrader.grade_scale, in the dict's insertion order
grade_scale ==
    << [letter |-> "A+", min_score |-> R(95), max_score |-> R(100)],
       [letter |-> "A",  min_score |-> R(90), max_score |-> Frac(949, 10)],
       [letter |-> "A-", min_score |-> R(85), max_score |-> Frac(899, 10)],
       [letter |-> "B+", min_score |-> R(80), max_score |-> Frac(849, 10)],
       [letter |-> "B",  min_score |-> R(75), max_score |-> Frac(799, 10)],
       [letter |-> "B-", min_score |-> R(70), max_score |-> Frac(749, 10)],
       [letter |-> "C+", min_score |-> R(65), max_score |-> Frac(699, 10)],
       [letter |-> "C",  min_score |-> R(55), max_score |-> Frac(649, 10)],
       [letter |-> "C-", min_score |-> R(50), max_score |-> Frac(549, 10)],
       [letter |-> "D+", min_score |-> R(45), max_score |-> Frac(499, 10)],
       [letter |-> "D",  min_score |-> R(40), max_score |-> Frac(449, 10)],
       [letter |-> "D-", min_score |-> R(35), max_score |-> Frac(399, 10)],
       [letter |-> "F",  min_score |-> R(0),  max_score |-> Frac(349, 10)] >>

\* does bucket i of grade_scale hold the score: min_score <= score <= max_score
InBucket(i, score) ==
    Le(grade_scale[i].min_score, score) /\ Le(score, grade_scale[i].max_score)

\* the first bucket that holds the score, else 'F'
_numeric_to_letter_grade(score) ==
    LET hits == {i \in 1..Len(grade_scale) : InBucket(i, score)}
    IN  IF hits = {} THEN "F"
        ELSE grade_scale[CHOOSE i \in hits : \A j \in hits : i <= j].letter

MaxScoreDen == 12

\* the numeric grades n/d of [0, 100] with a denominator up to MaxScoreDen
Scores ==
    UNION { { Frac(n, d) : n \in 0..(100 * d) } : d \in 1..MaxScoreDen }

InitLetter ==
    /\ IdleSource
    /\ op = "input"
    /\ numeric_grade \in Scores
    /\ row = [score |-> numeric_grade]
    /\ position_avg = R(0)
    /\ letter_grade = ""
    /\ IdleGrader
    /\ IdleCoach
    /\ IdleLine

CoachLetter ==
    /\ op = "input"
    /\ op' = "coach_letter"
    /\ letter_grade' = get_letter_grade(numeric_grade)
    /\ UNCHANGED <<row, position_avg, numeric_grade, notScoreVars>>

BasicCoachLetter ==
    /\ op = "input"
    /\ op' = "basic_coach_letter"
    /\ letter_grade' = NFLCoachingAnalytics_get_letter_grade(numeric_grade)
    /\ UNCHANGED <<row, position_avg, numeric_grade, notScoreVars>>

PlayerLetter ==
    /\ op = "input"
    /\ op' = "player_letter"
    /\ letter_grade' = _numeric_to_letter_grade(numeric_grade)
    /\ UNCHANGED <<row, position_avg, numeric_grade, notScoreVars>>

NextLetter == CoachLetter \/ BasicCoachLetter \/ PlayerLetter

SpecLetter == InitLetter /\ [][NextLetter]_vars

\* the 13 letters from the lowest to the highest
LetterOrder ==
    <<"F", "D-", "D", "D+", "C-", "C", "C+", "B-", "B", "B+", "A-", "A", "A+">>

LetterRank(l) == CHOOSE i \in 1..Len(LetterOrder) : LetterOrder[i] = l

\* the lower boundary of each letter in the strict table (A+ from 97)
StrictBoundary ==
    <<0, 60, 63, 67, 70, 73, 77, 80, 83, 87, 90, 93, 97>>

\* the letters whose strict-table interval [lower, next lower) holds g
StrictLetters(g) ==
    { LetterOrder[i] : i \in
        { k \in 1..Len(LetterOrder) :
            /\ Le(R(StrictBoundary[k]), g)
            /\ k < Len(LetterOrder) => Lt(g, R(StrictBoundary[k + 1])) } }

\* C3: with the strict boundary table every numeric grade in [0, 100] maps to
\* exactly one of the 13 letters, the one whose interval holds it, and a
\* higher numeric grade never maps to a lower letter (both coaching classes).
C3_StrictTableTotalMonotone ==
    op \in {"coach_letter", "basic_coach_letter"} =>
        /\ letter_grade \in {LetterOrder[i] : i \in 1..Len(LetterOrder)}
        /\ StrictLetters(numeric_grade) = {letter_grade}
        /\ \A k \in 0..100 :
               LET other == IF op = "coach_letter"
                            THEN get_letter_grade(R(k))
                            ELSE NFLCoachingAnalytics_get_letter_grade(R(k))
               IN  /\ Le(R(k), numeric_grade) =>
                          LetterRank(other) <= LetterRank(letter_grade)
                   /\ Le(numeric_grade, R(k)) =>
                          LetterRank(letter_grade) <= LetterRank(other)

\* a non-integer grade just under a boundary has been converted
C3_Witness ==
    /\ op = "coach_letter"
    /\ Lt(R(86), numeric_grade) /\ Lt(numeric_grade, R(87))
    /\ letter_grade = "B"

\* C4: with the looser table every numeric grade in [0, 100], non-integer
\* values included, falls inside exactly one bucket of grade_scale and
\* receives that bucket's letter.
C4_LooseTableTotal ==
    op = "player_letter" =>
        \E i \in 1..Len(grade_scale) :
            /\ InBucket(i, numeric_grade)
            /\ \A j \in 1..Len(grade_scale) : InBucket(j, numeric_grade) => j = i
            /\ letter_grade = grade_scale[i].letter

---------------------------------------------------------------------------
(* EnhancedNFLPlayerGrader: the defensive tallies built from play-by-play. *)
(* A play row names its participants slot by slot (a name column and an    *)
(* id column per slot); Missing is pandas' NaN / None.                     *)

Missing == "nan"

\* NaN in a numeric column (week, season)
MissingNumber == 0 - 1

NoPlayer == [id |-> Missing, name |-> Missing]

\* pd.notna(play.get('<slot>_player_name'))
Named(slot) == slot.name # Missing

\* the stat columns every appended dict carries, all zero
ZeroStats ==
    [sacks |-> R(0), solo_tackles |-> 0, assist_tackles |-> 0,
     tackles_for_loss |-> 0, interceptions |-> 0, pass_deflections |-> 0,
     forced_fumbles |-> 0, qb_hits |-> 0]

\* one dict appended to a stats list for the player of `slot` of play idx
StatDict(idx, slotName, play, week, stats) ==
    [idx |-> idx, slot |-> slotName,
     player_id |-> play[slotName].id, player_name |-> play[slotName].name,
     week |-> week, season |-> play.season, stats |-> stats]

\* the dicts appended for one slot over the given rows of week_data
SlotStats(pbp, rows, week, slotName, stats) ==
    { StatDict(i, slotName, pbp[i], week, stats) :
        i \in {j \in rows : Named(pbp[j][slotName])} }

\* week_data = pbp_data[pbp_data['week'] == week], without the week filter
WeekRowsUnfiltered(pbp, week) == 1..Len(pbp)

\* week_data = pbp_data[pbp_data['week'] == week], as row indices
WeekRows(pbp, week) == {i \in 1..Len(pbp) : pbp[i].week = week}

\* _aggregate_weekly_sacks with a half sack credited as a full one
_aggregate_weekly_sacks_full_halves(pbp, rows, week) ==
    LET sacks == {i \in rows : pbp[i].sack = 1}
    IN  SlotStats(pbp, sacks, week, "sack_player",
                  [ZeroStats EXCEPT !.sacks = R(1)])
        \cup SlotStats(pbp, sacks, week, "half_sack_1",
                       [ZeroStats EXCEPT !.sacks = R(1)])
        \cup SlotStats(pbp, sacks, week, "half_sack_2",
                       [ZeroStats EXCEPT !.sacks = R(1)])

_aggregate_weekly_sacks(pbp, rows, week) ==
    LET sacks == {i \in rows : pbp[i].sack = 1}
        half_sacks == {i \in rows : pbp[i].sack = 1}
    IN  SlotStats(pbp, sacks, week, "sack_player",
                  [ZeroStats EXCEPT !.sacks = R(1)])
        \cup SlotStats(pbp, half_sacks, week, "half_sack_1",
                       [ZeroStats EXCEPT !.sacks = Frac(1, 2)])
        \cup SlotStats(pbp, half_sacks, week, "half_sack_2",
                       [ZeroStats EXCEPT !.sacks = Frac(1, 2)])

\* _aggregate_weekly_tackles without the second assist slot
_aggregate_weekly_tackles_one_assist(pbp, rows, week) ==
    SlotStats(pbp, rows, week, "solo_tackle_1",
              [ZeroStats EXCEPT !.solo_tackles = 1])
    \cup SlotStats(pbp, rows, week, "assist_tackle_1",
                   [ZeroStats EXCEPT !.assist_tackles = 1])
    \cup SlotStats(pbp, rows, week, "tackle_for_loss_1",
                   [ZeroStats EXCEPT !.tackles_for_loss = 1])

_aggregate_weekly_tackles(pbp, rows, week) ==
    SlotStats(pbp, rows, week, "solo_tackle_1",
              [ZeroStats EXCEPT !.solo_tackles = 1])
    \cup SlotStats(pbp, rows, week, "assist_tackle_1",
                   [ZeroStats EXCEPT !.assist_tackles = 1])
    \cup SlotStats(pbp, rows, week, "assist_tackle_2",
                   [ZeroStats EXCEPT !.assist_tackles = 1])
    \cup SlotStats(pbp, rows, week, "tackle_for_loss_1",
                   [ZeroStats EXCEPT !.tackles_for_loss = 1])

_aggregate_weekly_interceptions(pbp, rows, week) ==
    SlotStats(pbp, {i \in rows : pbp[i].interception = 1}, week,
              "interception_player", [ZeroStats EXCEPT !.interceptions = 1])

_aggregate_weekly_pass_deflections(pbp, rows, week) ==
    SlotStats(pbp, rows, week, "pass_defense_1",
              [ZeroStats EXCEPT !.pass_deflections = 1])

_aggregate_weekly_forced_fumbles(pbp, rows, week) ==
    SlotStats(pbp, rows, week, "forced_fumble_player_1",
              [ZeroStats EXCEPT !.forced_fumbles = 1])

_aggregate_weekly_qb_hits(pbp, rows, week) ==
    SlotStats(pbp, rows, week, "qb_hit_1", [ZeroStats EXCEPT !.qb_hits = 1])

\* defensive_stats_list after the loop over the weeks of pbp_data
defensive_stats_list(pbp) ==
    UNION { LET rows == WeekRows(pbp, week)
            IN  _aggregate_weekly_sacks(pbp, rows, week)
                \cup _aggregate_weekly_tackles(pbp, rows, week)
                \cup _aggregate_weekly_interceptions(pbp, rows, week)
                \cup _aggregate_weekly_pass_deflections(pbp, rows, week)
                \cup _aggregate_weekly_forced_fumbles(pbp, rows, week)
                \cup _aggregate_weekly_qb_hits(pbp, rows, week) :
            week \in {pbp[i].week : i \in 1..Len(pbp)} \ {MissingNumber} }

\* 'sum' of one integer column over the dicts of a group
RECURSIVE SumColumn(_, _)
SumColumn(dicts, column) ==
    IF dicts = {} THEN 0
    ELSE LET d == CHOOSE x \in dicts : TRUE
         IN  d.stats[column] + SumColumn(dicts \ {d}, column)

\* 'sum' of the sacks column over the dicts of a group
RECURSIVE SumSacks(_)
SumSacks(dicts) ==
    IF dicts = {} THEN R(0)
    ELSE LET d == CHOOSE x \in dicts : TRUE
         IN  Add(d.stats.sacks, SumSacks(dicts \ {d}))

\* the key of df.groupby(['player_id', 'player_name', 'week', 'season'])
GroupKey(d) == <<d.player_id, d.player_name, d.week, d.season>>

\* _create_defensive_weekly_stats giving up on a malformed event
_create_defensive_weekly_stats_abort_on_malformed(pbp) ==
    LET list == defensive_stats_list(pbp)
    IN  IF \E d \in list : d.player_id = Missing \/ d.season = MissingNumber
        THEN {}
        ELSE { LET group == {d \in list : GroupKey(d) = key}
                   solo == SumColumn(group, "solo_tackles")
                   assist == SumColumn(group, "assist_tackles")
               IN  [player_id |-> key[1], player_name |-> key[2],
                    week |-> key[3], season |-> key[4],
                    sacks |-> SumSacks(group),
                    solo_tackles |-> solo,
                    assist_tackles |-> assist,
                    tackles_for_loss |-> SumColumn(group, "tackles_for_loss"),
                    interceptions |-> SumColumn(group, "interceptions"),
                    pass_deflections |-> SumColumn(group, "pass_deflections"),
                    forced_fumbles |-> SumColumn(group, "forced_fumbles"),
                    qb_hits |-> SumColumn(group, "qb_hits"),
                    total_tackles |-> solo + assist] :
               key \in {GroupKey(d) : d \in list} }

\* groupby drops the rows with a missing key column, sums each column per
\* key, and total_tackles = solo_tackles + assist_tackles
_create_defensive_weekly_stats(pbp) ==
    LET list == defensive_stats_list(pbp)
        kept == {d \in list :
                    /\ d.player_id # Missing /\ d.player_name # Missing
                    /\ d.week # MissingNumber /\ d.season # MissingNumber}
    IN  { LET group == {d \in kept : GroupKey(d) = key}
              solo == SumColumn(group, "solo_tackles")
              assist == SumColumn(group, "assist_tackles")
          IN  [player_id |-> key[1], player_name |-> key[2],
               week |-> key[3], season |-> key[4],
               sacks |-> SumSacks(group),
               solo_tackles |-> solo,
               assist_tackles |-> assist,
               tackles_for_loss |-> SumColumn(group, "tackles_for_loss"),
               interceptions |-> SumColumn(group, "interceptions"),
               pass_deflections |-> SumColumn(group, "pass_deflections"),
               forced_fumbles |-> SumColumn(group, "forced_fumbles"),
               qb_hits |-> SumColumn(group, "qb_hits"),
               total_tackles |-> solo + assist] :
          key \in {GroupKey(d) : d \in kept} }

---------------------------------------------------------------------------
(* The play-by-play inputs of the defensive tallies.                       *)

MaxPlays == 3

Weeks == {1, 2}

PlayerA == [id |-> "00-A", name |-> "A.Able"]
PlayerB == [id |-> "00-B", name |-> "B.Baker"]

\* a play row on which no defender is named
PlainPlay(week, season) ==
    [week |-> week, season |-> season, sack |-> 0, interception |-> 0,
     sack_player |-> NoPlayer, half_sack_1 |-> NoPlayer,
     half_sack_2 |-> NoPlayer, solo_tackle_1 |-> NoPlayer,
     assist_tackle_1 |-> NoPlayer, assist_tackle_2 |-> NoPlayer,
     tackle_for_loss_1 |-> NoPlayer, interception_player |-> NoPlayer,
     pass_defense_1 |-> NoPlayer, forced_fumble_player_1 |-> NoPlayer,
     qb_hit_1 |-> NoPlayer]

SackPlay(week, season, flag, full, half1, half2) ==
    [PlainPlay(week, season) EXCEPT
        !.sack = flag, !.sack_player = full,
        !.half_sack_1 = half1, !.half_sack_2 = half2]

\* sack plays: a full sack, a split sack either way round, a row naming
\* both a full and two half sackers, a row naming a sacker without the sack
\* flag, and a plain play; one full sack in a second season
SackPlays ==
    UNION { { SackPlay(w, 2023, 1, PlayerA, NoPlayer, NoPlayer),
              SackPlay(w, 2023, 1, PlayerB, NoPlayer, NoPlayer),
              SackPlay(w, 2023, 1, NoPlayer, PlayerA, PlayerB),
              SackPlay(w, 2023, 1, NoPlayer, PlayerB, PlayerA),
              SackPlay(w, 2023, 1, PlayerA, PlayerA, PlayerB),
              SackPlay(w, 2023, 0, PlayerA, NoPlayer, NoPlayer),
              PlainPlay(w, 2023) } : w \in Weeks }
    \cup { SackPlay(1, 2024, 1, PlayerA, NoPlayer, NoPlayer) }

\* one play per stat category, each naming its participants
MixedPlays ==
    UNION { { SackPlay(w, 2023, 1, PlayerA, NoPlayer, NoPlayer),
              SackPlay(w, 2023, 1, NoPlayer, PlayerA, PlayerB),
              [PlainPlay(w, 2023) EXCEPT !.solo_tackle_1 = PlayerA],
              [PlainPlay(w, 2023) EXCEPT !.assist_tackle_1 = PlayerA,
                                         !.assist_tackle_2 = PlayerB],
              [PlainPlay(w, 2023) EXCEPT !.tackle_for_loss_1 = PlayerB,
                                         !.solo_tackle_1 = PlayerB],
              [PlainPlay(w, 2023) EXCEPT !.interception = 1,
                                         !.interception_player = PlayerA],
              [PlainPlay(w, 2023) EXCEPT !.interception_player = PlayerB],
              [PlainPlay(w, 2023) EXCEPT !.pass_defense_1 = PlayerA],
              [PlainPlay(w, 2023) EXCEPT !.forced_fumble_player_1 = PlayerB],
              [PlainPlay(w, 2023) EXCEPT !.qb_hit_1 = PlayerA],
              PlainPlay(w, 2023) } : w \in Weeks }

SeqsUpTo(S, n) == UNION { [1..k -> S] : k \in 0..n }

---------------------------------------------------------------------------
(* Specifications of the defensive tallies: the play-by-play rows are      *)
(* imported, then _prepare_defensive_data builds defensive_weekly.         *)

InitSack ==
    /\ IdleSource
    /\ op = "loaded"
    /\ pbp_data \in SeqsUpTo(SackPlays, MaxPlays)
    /\ defensive_weekly = {}
    /\ IdleScore
    /\ IdleCoach
    /\ IdleLine

InitDefense ==
    /\ IdleSource
    /\ op = "loaded"
    /\ pbp_data \in SeqsUpTo(MixedPlays, MaxPlays)
    /\ defensive_weekly = {}
    /\ IdleScore
    /\ IdleCoach
    /\ IdleLine

_prepare_defensive_data ==
    /\ op = "loaded"
    /\ op' = "prepared"
    /\ defensive_weekly' = _create_defensive_weekly_stats(pbp_data)
    /\ UNCHANGED <<pbp_data, notGraderVars>>

NextDefense == _prepare_defensive_data

SpecSack == InitSack /\ [][NextDefense]_vars

SpecDefense == InitDefense /\ [][NextDefense]_vars

\* the slots of a play row that name a participant
SlotNames ==
    {"sack_player", "half_sack_1", "half_sack_2", "solo_tackle_1",
     "assist_tackle_1", "assist_tackle_2", "tackle_for_loss_1",
     "interception_player", "pass_defense_1", "forced_fumble_player_1",
     "qb_hit_1"}

\* the sack plays of a season-week
SackPlaysOf(week, season) ==
    {i \in 1..Len(pbp_data) :
        /\ pbp_data[i].week = week /\ pbp_data[i].season = season
        /\ pbp_data[i].sack = 1}

\* how many full sacks, and how many half-sack credits, a player has in a
\* season-week
FullSacks(p, week, season) ==
    Cardinality({i \in SackPlaysOf(week, season) : pbp_data[i].sack_player = p})

HalfSackCredits(p, week, season) ==
    Cardinality({i \in SackPlaysOf(week, season) : pbp_data[i].half_sack_1 = p})
    + Cardinality({i \in SackPlaysOf(week, season) : pbp_data[i].half_sack_2 = p})

RowsOf(p, week, season) ==
    {r \in defensive_weekly :
        /\ r.player_id = p.id /\ r.player_name = p.name
        /\ r.week = week /\ r.season = season}

\* C5: every player-week sacks tally is a non-negative multiple of 0.5 equal
\* to (full sacks) + 0.5 * (half-sack credits) of that player in that
\* season-week; one full sack and two separate half sacks tally exactly 2.0.
C5_SacksTally ==
    op = "prepared" =>
        \A p \in {PlayerA, PlayerB}, w \in Weeks, s \in {2023, 2024} :
            LET full == FullSacks(p, w, s)
                half == HalfSackCredits(p, w, s)
            IN  /\ \A r \in RowsOf(p, w, s) :
                       /\ r.sacks = Frac(2 * full + half, 2)
                       /\ Le(R(0), r.sacks)
                       /\ Mul(r.sacks, R(2))[2] = 1
                /\ full + half > 0 => Cardinality(RowsOf(p, w, s)) = 1
                /\ full = 1 /\ half = 2 =>
                       \E r \in RowsOf(p, w, s) : r.sacks = R(2)

\* a player with one full sack and two half sacks on three separate plays of
\* one week has been tallied
C5_Witness ==
    /\ op = "prepared"
    /\ Len(pbp_data) = 3
    /\ FullSacks(PlayerA, 1, 2023) = 1
    /\ HalfSackCredits(PlayerA, 1, 2023) = 2
    /\ \A i \in 1..3 : ~(Named(pbp_data[i].sack_player)
                            /\ Named(pbp_data[i].half_sack_1))
    /\ \E r \in RowsOf(PlayerA, 1, 2023) : r.sacks = R(2)

\* the sack credit one play hands out, in all and to one player key
PlayCredit(i) ==
    SumSacks({d \in defensive_stats_list(pbp_data) : d.idx = i})

PlayCreditTo(i, p) ==
    SumSacks({d \in defensive_stats_list(pbp_data) :
                 d.idx = i /\ d.player_id = p.id /\ d.player_name = p.name})

\* C6: on a single sack play the credit goes to one full sacker or to at most
\* two half sackers, never both: the play hands out at most 1.0 in all and
\* at most 1.0 to any one player key.
C6_OneSackPerPlay ==
    op = "prepared" =>
        \A i \in 1..Len(pbp_data) :
            /\ Le(PlayCredit(i), R(1))
            /\ \A p \in {PlayerA, PlayerB} : Le(PlayCreditTo(i, p), R(1))
            /\ \A d, e \in defensive_stats_list(pbp_data) :
                   ~(/\ d.idx = i /\ d.slot = "sack_player"
                     /\ e.idx = i /\ e.slot \in {"half_sack_1", "half_sack_2"})

\* C7: a row of defensive_weekly exists only for a player named in a
\* participant slot of a play of that season-week, and no row is all zero.
C7_RowsOnlyForInvolvedPlayers ==
    op = "prepared" =>
        \A r \in defensive_weekly :
            /\ \E i \in 1..Len(pbp_data), slot \in SlotNames :
                   /\ pbp_data[i].week = r.week
                   /\ pbp_data[i].season = r.season
                   /\ pbp_data[i][slot].name = r.player_name
                   /\ pbp_data[i][slot].id = r.player_id
            /\ \/ Lt(R(0), r.sacks)
               \/ r.solo_tackles + r.assist_tackles + r.tackles_for_loss
                  + r.interceptions + r.pass_deflections + r.forced_fumbles
                  + r.qb_hits > 0

\* a week in which one player has a row and the other, named nowhere in that
\* week, has none
C7_Witness ==
    /\ op = "prepared"
    /\ RowsOf(PlayerA, 1, 2023) # {}
    /\ RowsOf(PlayerB, 1, 2023) = {}
    /\ RowsOf(PlayerB, 2, 2023) # {}
    /\ \A i \in 1..Len(pbp_data), slot \in SlotNames :
           pbp_data[i].week = 1 => pbp_data[i][slot] # PlayerB

---------------------------------------------------------------------------
(* RosterAwareCoachingAnalytics: the schedule, the extracted coach-season  *)
(* records and the play-by-play analyses.  schedule_data and               *)
(* coach_pbp_data are sequences of rows; coaching_data is the dict of      *)
(* extract_coaching_info kept in insertion order, one entry per            *)
(* (coach, season) key.  Both tables are loaded (not None) in every state  *)
(* below, as after load_data.                                              *)

\* season=None, team=None, position_group=None and an empty coach name:
\* the values Python's `if x:` takes for absent
NoSeason == 0
NoTeam == ""
NoCoach == ""
NoGroup == ""

\* the index of the (coach, season) key in coaches, 0 when absent
KeyIndex(coaches, coach, season) ==
    IF \E i \in 1..Len(coaches) :
           coaches[i].name = coach /\ coaches[i].season = season
    THEN CHOOSE i \in 1..Len(coaches) :
             coaches[i].name = coach /\ coaches[i].season = season
    ELSE 0

\* 'W' if both scores are present and score > opp_score, 'L' if both are
\* present, else None
GameResult(score, opp_score) ==
    IF score # MissingNumber /\ opp_score # MissingNumber
    THEN IF score > opp_score THEN "W" ELSE "L"
    ELSE "None"

\* coaches[coach_key] created on first sight, then teams.add and
\* games.append
AddCoachGame(coaches, coach, season, team, entry) ==
    LET i == KeyIndex(coaches, coach, season)
    IN  IF i = 0
        THEN Append(coaches, [name |-> coach, season |-> season,
                              teams |-> {team}, games |-> <<entry>>])
        ELSE [coaches EXCEPT ![i].teams = @ \cup {team},
                             ![i].games = Append(@, entry)]

\* the home-coach branch, then the away-coach branch, for one schedule row
AddScheduleRow(coaches, game) ==
    LET home ==
            IF game.home_coach # Missing /\ game.home_team # Missing
            THEN AddCoachGame(coaches, game.home_coach, game.season,
                     game.home_team,
                     [game_id |-> game.game_id, team |-> game.home_team,
                      opponent |-> game.away_team, is_home |-> TRUE,
                      week |-> game.week, score |-> game.home_score,
                      opp_score |-> game.away_score,
                      result |-> GameResult(game.home_score,
                                            game.away_score)])
            ELSE coaches
    IN  IF game.away_coach # Missing /\ game.away_team # Missing
        THEN AddCoachGame(home, game.away_coach, game.season,
                 game.away_team,
                 [game_id |-> game.game_id, team |-> game.away_team,
                  opponent |-> game.home_team, is_home |-> FALSE,
                  week |-> game.week, score |-> game.away_score,
                  opp_score |-> game.home_score,
                  result |-> GameResult(game.away_score, game.home_score)])
        ELSE home

RECURSIVE ExtractRows(_, _, _)
ExtractRows(schedule, i, coaches) ==
    IF i > Len(schedule) THEN coaches
    ELSE ExtractRows(schedule, i + 1, AddScheduleRow(coaches, schedule[i]))

\* the dict extract_coaching_info builds from the schedule, always from an
\* empty one
ExtractedCoaches(schedule) == ExtractRows(schedule, 1, <<>>)

\* the entries of coaching_data with coach == coach_name and
\* (season is None or seas == season), in dict order
CoachEntries(cd, coach_name, season) ==
    SelectSeq(cd, LAMBDA e : e.name = coach_name
                             /\ (season = NoSeason \/ e.season = season))

RECURSIVE CoachGames(_, _)
CoachGames(entries, i) ==
    IF i > Len(entries) THEN <<>>
    ELSE entries[i].games \o CoachGames(entries, i + 1)

\* pd.concat of, per coached game, the plays of that game in which the
\* coach's team is the side named by column (posteam or defteam)
RECURSIVE ConcatGamePlays(_, _, _, _)
ConcatGamePlays(games, i, plays, column) ==
    IF i > Len(games) THEN <<>>
    ELSE SelectSeq(plays, LAMBDA p : p.game_id = games[i].game_id
                                     /\ p[column] = games[i].team)
         \o ConcatGamePlays(games, i + 1, plays, column)

RECURSIVE SumOf(_, _, _)
SumOf(rows, column, i) ==
    IF i > Len(rows) THEN 0 ELSE rows[i][column] + SumOf(rows, column, i + 1)

\* Series.mean(): the mean of the values that are not NaN, NaN when there
\* are none
MeanOf(rows, column) ==
    LET present == SelectSeq(rows, LAMBDA p : p[column] # MissingNumber)
    IN  IF present = <<>> THEN NaN
        ELSE Frac(SumOf(present, column, 1), Len(present))

\* (count / total) * 100
Pct(count, total) == Mul(Frac(count, total), R(100))

\* a dict with the one key k when present holds, else the empty dict
KeyIf(present, k, v) == IF present THEN k :> v ELSE <<>>

OfType(plays, type) == SelectSeq(plays, LAMBDA p : p.play_type = type)

\* value_counts() of play_type over the run and pass plays, as percentages
PlayTypePct(plays) ==
    LET runs == Len(OfType(plays, "run"))
        passes == Len(OfType(plays, "pass"))
    IN  KeyIf(runs > 0, "run", Pct(runs, runs + passes))
        @@ KeyIf(passes > 0, "pass", Pct(passes, runs + passes))

\* the down_N keys of the downs that have run or pass plays
DownTendencies(plays) ==
    LET OnDown(down) == SelectSeq(plays, LAMBDA p : p.down = down)
        keys == <<"down_1", "down_2", "down_3", "down_4">>
        downs == {down \in 1..4 : PlayTypePct(OnDown(down)) # <<>>}
    IN  [k \in {keys[down] : down \in downs} |->
            PlayTypePct(OnDown(CHOOSE down \in 1..4 : keys[down] = k))]

analyze_offensive_tendencies(pbp, cd, coach_name, team, season) ==
    LET by_season == IF season # NoSeason
                     THEN SelectSeq(pbp, LAMBDA p : p.season = season)
                     ELSE pbp
        by_team == IF team # NoTeam
                   THEN SelectSeq(by_season, LAMBDA p : p.posteam = team)
                   ELSE by_season
        coach_games == CoachGames(CoachEntries(cd, coach_name, season), 1)
        filtered_pbp ==
            IF coach_name # NoCoach /\ coach_games # <<>>
            THEN ConcatGamePlays(coach_games, 1, by_team, "posteam")
            ELSE by_team
        red_zone == SelectSeq(filtered_pbp,
                        LAMBDA p : p.yardline_100 # MissingNumber
                                   /\ p.yardline_100 <= 20
                                   /\ p.play_type \in {"run", "pass"})
        passing_plays == OfType(filtered_pbp, "pass")
        rushing_plays == OfType(filtered_pbp, "run")
    IN  IF filtered_pbp = <<>> THEN None
        ELSE ("play_type_pct" :> PlayTypePct(filtered_pbp))
             @@ ("down_tendencies" :> DownTendencies(filtered_pbp))
             @@ KeyIf(red_zone # <<>>, "red_zone_tendencies",
                      PlayTypePct(red_zone))
             @@ KeyIf(passing_plays # <<>>, "passing_efficiency",
                  [yards_per_attempt |->
                       MeanOf(passing_plays, "passing_yards"),
                   completion_pct |->
                       Pct(SumOf(passing_plays, "complete_pass", 1),
                           Len(passing_plays)),
                   td_pct |->
                       Pct(SumOf(passing_plays, "pass_touchdown", 1),
                           Len(passing_plays)),
                   int_pct |->
                       Pct(SumOf(passing_plays, "interception", 1),
                           Len(passing_plays))])
             @@ KeyIf(rushing_plays # <<>>, "rushing_efficiency",
                  [yards_per_carry |->
                       MeanOf(rushing_plays, "rushing_yards"),
                   td_pct |->
                       Pct(SumOf(rushing_plays, "rush_touchdown", 1),
                           Len(rushing_plays))])

analyze_defensive_performance(pbp, cd, coach_name, team, season) ==
    LET by_season == IF season # NoSeason
                     THEN SelectSeq(pbp, LAMBDA p : p.season = season)
                     ELSE pbp
        by_team == IF team # NoTeam
                   THEN SelectSeq(by_season, LAMBDA p : p.defteam = team)
                   ELSE by_season
        filtered_pbp ==
            IF coach_name # NoCoach
            THEN ConcatGamePlays(
                     CoachGames(CoachEntries(cd, coach_name, season), 1),
                     1, by_team, "defteam")
            ELSE by_team
        passing_plays == OfType(filtered_pbp, "pass")
        rushing_plays == OfType(filtered_pbp, "run")
        red_zone_def == SelectSeq(filtered_pbp,
                            LAMBDA p : p.yardline_100 # MissingNumber
                                       /\ p.yardline_100 <= 20)
    IN  IF filtered_pbp = <<>> THEN None
        ELSE KeyIf(passing_plays # <<>>, "pass_defense",
                  [yards_per_attempt_allowed |->
                       MeanOf(passing_plays, "passing_yards"),
                   completion_pct_allowed |->
                       Pct(SumOf(passing_plays, "complete_pass", 1),
                           Len(passing_plays)),
                   td_pct_allowed |->
                       Pct(SumOf(passing_plays, "pass_touchdown", 1),
                           Len(passing_plays)),
                   int_pct |->
                       Pct(SumOf(passing_plays, "interception", 1),
                           Len(passing_plays)),
                   sack_pct |->
                       Pct(SumOf(passing_plays, "sack", 1),
                           Len(passing_plays))])
             @@ KeyIf(rushing_plays # <<>>, "rush_defense",
                  [yards_per_carry_allowed |->
                       MeanOf(rushing_plays, "rushing_yards"),
                   td_pct_allowed |->
                       Pct(SumOf(rushing_plays, "rush_touchdown", 1),
                           Len(rushing_plays)),
                   stuff_rate |->
                       Pct(Len(SelectSeq(rushing_plays,
                               LAMBDA p :
                                   p.rushing_yards # MissingNumber
                                   /\ p.rushing_yards <= 0)),
                           Len(rushing_plays))])
             @@ KeyIf(red_zone_def # <<>>, "red_zone_defense",
                  [td_pct_allowed |->
                       Pct(SumOf(red_zone_def, "touchdown", 1),
                           Len(red_zone_def)),
                   yards_per_play_allowed |->
                       MeanOf(red_zone_def, "yards_gained")])

\* a dict or None that Python's `if x:` takes for true
NonEmpty(d) == d # None /\ d # <<>>

\* a float that Python's `if x:` takes for true (NaN is one)
Truthy(x) == x # R(0)

AbsR(a) == IF Lt(a, R(0)) THEN Sub(R(0), a) ELSE a

_get_team_record(cd, coach_name, season) ==
    LET entries == CoachEntries(cd, coach_name, season)
        games == entries[1].games
        wins == Len(SelectSeq(games, LAMBDA g : g.result = "W"))
        total_games == Len(SelectSeq(games, LAMBDA g : g.result # "None"))
    IN  IF entries = <<>> THEN None
        ELSE [wins |-> wins, losses |-> total_games - wins,
              win_pct |-> IF total_games > 0 THEN Pct(wins, total_games)
                          ELSE R(0)]

offensive_coaches ==
    {"Andy Reid", "Sean McVay", "Kyle Shanahan", "Sean Payton",
     "Josh McDaniels", "Arthur Smith", "Matt LaFleur"}

defensive_coaches ==
    {"Bill Belichick", "Mike Tomlin", "Pete Carroll", "Vic Fangio",
     "Brandon Staley", "Robert Saleh", "Dan Quinn"}

_determine_coach_specialty(coach_name, season) ==
    IF coach_name \in offensive_coaches THEN "offense"
    ELSE IF coach_name \in defensive_coaches THEN "defense"
    ELSE "balanced"

context_multiplier(win_pct) ==
    IF Le(R(75), win_pct) THEN Frac(103, 100)
    ELSE IF Le(R(65), win_pct) THEN Frac(101, 100)
    ELSE IF Le(win_pct, R(25)) THEN Frac(97, 100)
    ELSE IF Le(win_pct, R(35)) THEN Frac(99, 100)
    ELSE R(1)

balance_score(run_pct) ==
    IF Le(R(30), run_pct) /\ Le(run_pct, R(55)) THEN R(85)
    ELSE IF Le(R(25), run_pct) /\ Le(run_pct, R(60)) THEN R(80)
    ELSE PyMax(R(70),
               Sub(R(85), PyMin(AbsR(Sub(R(30), run_pct)),
                                AbsR(Sub(R(55), run_pct)))))

ypa_grade(ypa) ==
    IF Le(Frac(15, 2), ypa)
    THEN Add(R(90), PyMin(R(10), Mul(Sub(ypa, Frac(15, 2)), R(4))))
    ELSE IF Le(R(7), ypa) THEN Add(R(80), Mul(Sub(ypa, R(7)), R(20)))
    ELSE IF Le(Frac(13, 2), ypa)
    THEN Add(R(70), Mul(Sub(ypa, Frac(13, 2)), R(20)))
    ELSE PyMax(R(50), Mul(R(70), Div(ypa, Frac(13, 2))))

comp_grade(comp_pct) ==
    IF Le(R(65), comp_pct)
    THEN Add(R(85), PyMin(R(15), Mul(Sub(comp_pct, R(65)), R(3))))
    ELSE IF Le(R(60), comp_pct)
    THEN Add(R(75), Mul(Sub(comp_pct, R(60)), R(2)))
    ELSE PyMax(R(50), Mul(R(75), Div(comp_pct, R(60))))

td_grade(td_pct) ==
    IF Le(Frac(9, 2), td_pct)
    THEN Add(R(85), PyMin(R(15), Mul(Sub(td_pct, Frac(9, 2)), R(6))))
    ELSE IF Le(Frac(7, 2), td_pct)
    THEN Add(R(75), Mul(Sub(td_pct, Frac(7, 2)), R(10)))
    ELSE PyMax(R(50), Mul(R(75), Div(td_pct, Frac(7, 2))))

int_grade(int_pct) ==
    IF Le(int_pct, R(2))
    THEN Add(R(85), PyMin(R(15), Mul(Sub(R(2), int_pct), R(10))))
    ELSE IF Le(int_pct, Frac(5, 2))
    THEN Add(R(75), Mul(Sub(Frac(5, 2), int_pct), R(20)))
    ELSE PyMax(R(50), Sub(R(75), Mul(Sub(int_pct, Frac(5, 2)), R(10))))

ypc_grade(ypc) ==
    IF Le(Frac(9, 2), ypc)
    THEN Add(R(85), PyMin(R(15), Mul(Sub(ypc, Frac(9, 2)), R(10))))
    ELSE IF Le(R(4), ypc) THEN Add(R(75), Mul(Sub(ypc, R(4)), R(20)))
    ELSE PyMax(R(50), Mul(R(75), Div(ypc, R(4))))

ypa_def_grade(ypa_allowed) ==
    IF Le(ypa_allowed, Frac(13, 2))
    THEN Add(R(85), PyMin(R(15), Mul(Sub(Frac(13, 2), ypa_allowed), R(6))))
    ELSE IF Le(ypa_allowed, R(7))
    THEN Add(R(75), Mul(Sub(R(7), ypa_allowed), R(20)))
    ELSE IF Le(ypa_allowed, Frac(15, 2))
    THEN Add(R(65), Mul(Sub(Frac(15, 2), ypa_allowed), R(20)))
    ELSE PyMax(R(50),
               Sub(R(65), Mul(Sub(ypa_allowed, Frac(15, 2)), R(8))))

int_def_grade(int_rate) ==
    IF Le(Frac(5, 2), int_rate)
    THEN Add(R(85), PyMin(R(15), Mul(Sub(int_rate, Frac(5, 2)), R(10))))
    ELSE IF Le(R(2), int_rate)
    THEN Add(R(75), Mul(Sub(int_rate, R(2)), R(20)))
    ELSE PyMax(R(50), Mul(R(75), Div(int_rate, R(2))))

sack_grade(sack_rate) ==
    IF Le(R(7), sack_rate)
    THEN Add(R(85), PyMin(R(15), Mul(Sub(sack_rate, R(7)), R(5))))
    ELSE IF Le(Frac(11, 2), sack_rate)
    THEN Add(R(75), Mul(Sub(sack_rate, Frac(11, 2)), Frac(667, 100)))
    ELSE PyMax(R(50), Mul(R(75), Div(sack_rate, Frac(11, 2))))

ypc_def_grade(ypc_allowed) ==
    IF Le(ypc_allowed, R(4))
    THEN Add(R(85), PyMin(R(15), Mul(Sub(R(4), ypc_allowed), R(15))))
    ELSE IF Le(ypc_allowed, Frac(43, 10))
    THEN Add(R(75), Mul(Sub(Frac(43, 10), ypc_allowed), R(33)))
    ELSE IF Le(ypc_allowed, Frac(46, 10))
    THEN Add(R(65), Mul(Sub(Frac(46, 10), ypc_allowed), R(33)))
    ELSE PyMax(R(50),
               Sub(R(65), Mul(Sub(ypc_allowed, Frac(46, 10)), R(10))))

rz_grade(td_pct_allowed) ==
    IF Le(td_pct_allowed, R(50))
    THEN Add(R(85), PyMin(R(15), Mul(Sub(R(50), td_pct_allowed), R(1))))
    ELSE IF Le(td_pct_allowed, R(60))
    THEN Add(R(75), Mul(Sub(R(60), td_pct_allowed), R(1)))
    ELSE PyMax(R(50),
               Sub(R(75), Mul(Sub(td_pct_allowed, R(60)), Frac(8, 10))))

\* min(100, grade * context_multiplier)
Capped(grade, cm) == PyMin(R(100), Mul(grade, cm))

\* dict.get(key, default)
Get(d, key, default) == IF key \in DOMAIN d THEN d[key] ELSE default

off_grades(off_analysis, cm) ==
    KeyIf("play_type_pct" \in DOMAIN off_analysis, "play_balance",
          Mul(balance_score(Get(Get(off_analysis, "play_type_pct", <<>>),
                                "run", R(0))), cm))
    @@ (IF "passing_efficiency" \in DOMAIN off_analysis
        THEN LET pass_eff == off_analysis["passing_efficiency"]
             IN  [passing_ypa |->
                      Capped(ypa_grade(pass_eff.yards_per_attempt), cm),
                  completion_pct |->
                      Capped(comp_grade(pass_eff.completion_pct), cm),
                  passing_tds |-> Capped(td_grade(pass_eff.td_pct), cm),
                  interceptions |-> Capped(int_grade(pass_eff.int_pct), cm)]
        ELSE <<>>)
    @@ KeyIf("rushing_efficiency" \in DOMAIN off_analysis, "rushing_ypc",
             Capped(ypc_grade(Get(Get(off_analysis, "rushing_efficiency",
                                      <<>>), "yards_per_carry", R(0))), cm))
    @@ KeyIf("red_zone_tendencies" \in DOMAIN off_analysis,
             "red_zone_usage", Mul(R(75), cm))

def_grades(def_analysis, cm) ==
    (IF "pass_defense" \in DOMAIN def_analysis
     THEN LET pass_def == def_analysis["pass_defense"]
          IN  [pass_defense_ypa |->
                   Capped(ypa_def_grade(pass_def.yards_per_attempt_allowed),
                          cm),
               interceptions |-> Capped(int_def_grade(pass_def.int_pct), cm),
               pass_rush |-> Capped(sack_grade(pass_def.sack_pct), cm)]
     ELSE <<>>)
    @@ KeyIf("rush_defense" \in DOMAIN def_analysis, "rush_defense_ypc",
             Capped(ypc_def_grade(Get(Get(def_analysis, "rush_defense",
                        <<>>), "yards_per_carry_allowed", Frac(43, 10))),
                    cm))
    @@ KeyIf("red_zone_defense" \in DOMAIN def_analysis, "red_zone_defense",
             Capped(rz_grade(Get(Get(def_analysis, "red_zone_defense", <<>>),
                                 "td_pct_allowed", R(55))), cm))

RECURSIVE SumValues(_, _)
SumValues(d, keys) ==
    IF keys = {} THEN R(0)
    ELSE LET k == CHOOSE k \in keys : TRUE
         IN  Add(d[k], SumValues(d, keys \ {k}))

\* sum(scores) / len(scores) over the values of a non-empty dict
MeanValues(d) ==
    Div(SumValues(d, DOMAIN d), R(Cardinality(DOMAIN d)))

\* the specialty-weighted blend of the two unit grades
WeightedOverall(coach_specialty, offensive_overall, defensive_overall) ==
    IF coach_specialty = "offense"
    THEN Add(Mul(offensive_overall, Frac(6, 10)),
             Mul(defensive_overall, Frac(4, 10)))
    ELSE IF coach_specialty = "defense"
    THEN Add(Mul(offensive_overall, Frac(4, 10)),
             Mul(defensive_overall, Frac(6, 10)))
    ELSE Add(Mul(offensive_overall, Frac(5, 10)),
             Mul(defensive_overall, Frac(5, 10)))

\* grades['offensive'] and grades['defensive'] for the analyses that are
\* not empty
UnitGrades(off_analysis, def_analysis, cm) ==
    KeyIf(NonEmpty(off_analysis), "offensive", off_grades(off_analysis, cm))
    @@ KeyIf(NonEmpty(def_analysis), "defensive",
             def_grades(def_analysis, cm))

\* grades with offensive_overall and defensive_overall, the means of the
\* non-empty units
WithUnitOveralls(units) ==
    CHOOSE r \in
        { u @@ KeyIf("offensive" \in DOMAIN u /\ u["offensive"] # <<>>,
                     "offensive_overall", MeanValues(u["offensive"]))
            @@ KeyIf("defensive" \in DOMAIN u /\ u["defensive"] # <<>>,
                     "defensive_overall", MeanValues(u["defensive"])) :
          u \in {units} } : TRUE

\* grades with overall: the blend when both unit grades are truthy, else
\* the one that is
WithOverall(unit_grades, coach_specialty) ==
    CHOOSE r \in
        { LET has_off == "offensive_overall" \in DOMAIN g
                         /\ Truthy(g["offensive_overall"])
              has_def == "defensive_overall" \in DOMAIN g
                         /\ Truthy(g["defensive_overall"])
          IN  g @@ KeyIf(has_off \/ has_def, "overall",
                       IF has_off /\ has_def
                       THEN WeightedOverall(coach_specialty,
                                g["offensive_overall"],
                                g["defensive_overall"])
                       ELSE IF has_off THEN g["offensive_overall"]
                       ELSE g["defensive_overall"]) :
          g \in {unit_grades} } : TRUE

\* win_pct of the team record, 50 without one
WinPct(team_record) ==
    CHOOSE r \in {IF t # None THEN t.win_pct ELSE R(50) :
                  t \in {team_record}} : TRUE

grade_coach_performance(pbp, cd, coach_name, season) ==
    CHOOSE r \in
        { IF ~NonEmpty(off_analysis) /\ ~NonEmpty(def_analysis) THEN None
          ELSE WithOverall(
                   WithUnitOveralls(UnitGrades(off_analysis, def_analysis,
                                               cm)),
                   _determine_coach_specialty(coach_name, season)) :
          off_analysis \in
              {analyze_offensive_tendencies(pbp, cd, coach_name, NoTeam,
                                            season)},
          def_analysis \in
              {analyze_defensive_performance(pbp, cd, coach_name, NoTeam,
                                             season)},
          cm \in {context_multiplier(
                      WinPct(_get_team_record(cd, coach_name, season)))} } :
        TRUE

---------------------------------------------------------------------------
(* Roster quality and the roster-adjusted grade.  player_grades is None or *)
(* the per-player season table, one row per player_id.                     *)

RECURSIVE SumGrades(_, _)
SumGrades(pg, ids) ==
    IF ids = {} THEN R(0)
    ELSE LET id == CHOOSE id \in ids : TRUE
         IN  Add(pg[id].avg_grade, SumGrades(pg, ids \ {id}))

\* 4, 3, 2, 1 or 0 depth points by the player's grade
DepthPoints(grade) ==
    IF Le(R(90), grade) THEN 4
    ELSE IF Le(R(80), grade) THEN 3
    ELSE IF Le(R(70), grade) THEN 2
    ELSE IF Le(R(60), grade) THEN 1
    ELSE 0

RECURSIVE SumDepthPoints(_, _)
SumDepthPoints(pg, ids) ==
    IF ids = {} THEN 0
    ELSE LET id == CHOOSE id \in ids : TRUE
         IN  DepthPoints(pg[id].avg_grade)
             + SumDepthPoints(pg, ids \ {id})

_calculate_depth_score(pg, team_players) ==
    IF team_players = {} THEN R(0)
    ELSE Mul(Frac(SumDepthPoints(pg, team_players),
                  Cardinality(team_players)), R(10))

\* the rows get_roster_quality_metrics keeps: the team's rows of the
\* season, then those of the position group when one is given
team_players_of(pg, team, season, position_group) ==
    LET of_team == {id \in DOMAIN pg : /\ pg[id].primary_team = team
                                        /\ pg[id].season = season}
    IN  IF position_group # NoGroup
        THEN {id \in of_team : pg[id].position_group = position_group}
        ELSE of_team

\* without median_grade, grade_std and position_breakdown, which nothing
\* reads
get_roster_quality_metrics(pg, team, season, position_group) ==
    LET team_players == team_players_of(pg, team, season, position_group)
    IN  IF pg = None THEN None
        ELSE IF team_players = {} THEN None
        ELSE [total_players |-> Cardinality(team_players),
              avg_grade |-> Div(SumGrades(pg, team_players),
                                R(Cardinality(team_players))),
              top_players |->
                  Cardinality({id \in team_players :
                                   Le(R(80), pg[id].avg_grade)}),
              elite_players |->
                  Cardinality({id \in team_players :
                                   Le(R(90), pg[id].avg_grade)}),
              below_avg_players |->
                  Cardinality({id \in team_players :
                                   Lt(pg[id].avg_grade, R(70))}),
              depth_score |-> _calculate_depth_score(pg, team_players)]
             @@ KeyIf(position_group # NoGroup, "position_group",
                      position_group)

\* _get_roster_tier with the breakpoints 72, 68, 64 and 60
_get_roster_tier_from_72(avg_grade) ==
    IF Le(R(72), avg_grade) THEN "Elite"
    ELSE IF Le(R(68), avg_grade) THEN "Good"
    ELSE IF Le(R(64), avg_grade) THEN "Average"
    ELSE IF Le(R(60), avg_grade) THEN "Below Average"
    ELSE "Poor"

_get_roster_tier(avg_grade) ==
    IF Le(R(80), avg_grade) THEN "Elite"
    ELSE IF Le(R(75), avg_grade) THEN "Very Good"
    ELSE IF Le(R(70), avg_grade) THEN "Average"
    ELSE IF Le(R(65), avg_grade) THEN "Below Average"
    ELSE "Poor"

calculate_adjustment_factor(roster_grade, depth_score) ==
    LET depth_factor == PyMin(Div(depth_score, R(20)), R(1))
    IN  IF Le(R(85), roster_grade)
        THEN Add(Frac(85, 100), Mul(Frac(1, 10), depth_factor))
        ELSE IF Le(R(75), roster_grade)
        THEN Add(Frac(92, 100), Mul(Frac(5, 100), depth_factor))
        ELSE IF Le(R(65), roster_grade) THEN R(1)
        ELSE IF Le(R(55), roster_grade)
        THEN Add(Frac(108, 100),
                 Mul(Frac(1, 10), Sub(R(1), depth_factor)))
        ELSE Add(Frac(115, 100),
                 Mul(Frac(15, 100), Sub(R(1), depth_factor)))

RECURSIVE SumMetric(_, _, _, _)
SumMetric(roster_adjustments, teams, unit, metric) ==
    IF teams = {} THEN R(0)
    ELSE LET t == CHOOSE t \in teams : TRUE
         IN  Add(roster_adjustments[t][unit][metric],
                 SumMetric(roster_adjustments, teams \ {t}, unit, metric))

\* np.mean([r[unit][metric] for r in roster_adjustments.values()
\*          if r[unit]]): NaN for an empty list
MeanMetric(roster_adjustments, unit, metric) ==
    LET teams == {t \in DOMAIN roster_adjustments :
                      roster_adjustments[t][unit] # None}
    IN  IF teams = {} THEN NaN
        ELSE Div(SumMetric(roster_adjustments, teams, unit, metric),
                 R(Cardinality(teams)))

RECURSIVE CoachTeams(_, _)
CoachTeams(entries, i) ==
    IF i > Len(entries) THEN {}
    ELSE entries[i].teams \cup CoachTeams(entries, i + 1)

\* the season after the coach_teams loop: the one given, else the season
\* of the coach's first entry, which the loop assigns on its first match
RosterSeason(entries, season) ==
    IF season = NoSeason /\ entries # <<>>
    THEN entries[1].season
    ELSE season

\* coach_teams: the loop matches later entries against the season it has
\* assigned
coach_teams_of(cd, coach_name, season) ==
    LET seas == RosterSeason(CoachEntries(cd, coach_name, season), season)
    IN  CoachTeams(CoachEntries(cd, coach_name, seas), 1)

\* the roster_adjustments dict: the teams coached that have overall roster
\* metrics
RosterAdjustments(pg, coach_teams, seas) ==
    LET teams == {t \in coach_teams :
                      get_roster_quality_metrics(pg, t, seas, NoGroup)
                          # None}
    IN  [t \in teams |->
            [overall |-> get_roster_quality_metrics(pg, t, seas, NoGroup),
             offensive |->
                 get_roster_quality_metrics(pg, t, seas, "OFFENSE"),
             defensive |->
                 get_roster_quality_metrics(pg, t, seas, "DEFENSE")]]

\* every value of a dict multiplied by the factor
Scaled(d, factor) == [k \in DOMAIN d |-> Mul(d[k], factor)]

\* min(100, max(40, grade))
ClampAdjusted(grade) == PyMin(R(100), PyMax(R(40), grade))

\* the unit's overall grade and category grades multiplied by the unit's
\* adjustment factor, when the unit's roster average is truthy and the
\* unit was graded
AdjustUnit(adjusted_grades, roster_adjustments, unit, overall_key) ==
    CHOOSE r \in
        { IF Truthy(avg) /\ overall_key \in DOMAIN g
          THEN (overall_key :> Mul(g[overall_key], adjustment))
               @@ KeyIf(unit \in DOMAIN g, unit,
                        Scaled(g[unit], adjustment))
               @@ g
          ELSE g :
          g \in {adjusted_grades},
          avg \in {MeanMetric(roster_adjustments, unit, "avg_grade")},
          adjustment \in
              {calculate_adjustment_factor(
                   MeanMetric(roster_adjustments, unit, "avg_grade"),
                   MeanMetric(roster_adjustments, unit, "depth_score"))} } :
        TRUE

\* overall recomputed from the adjusted unit grades when both are there
Reblended(adjusted_grades, coach_specialty) ==
    CHOOSE r \in
        { IF "offensive_overall" \in DOMAIN g
             /\ "defensive_overall" \in DOMAIN g
          THEN ("overall" :> WeightedOverall(coach_specialty,
                                 g["offensive_overall"],
                                 g["defensive_overall"]))
               @@ g
          ELSE g :
          g \in {adjusted_grades} } : TRUE

\* roster_context added, then the three overall grades clamped
WithRosterContext(adjusted_grades, roster_adjustments) ==
    CHOOSE r \in
        { [k \in DOMAIN g \cap
                 {"offensive_overall", "defensive_overall", "overall"}
               |-> ClampAdjusted(g[k])]
          @@ ("roster_context" :>
                 [roster_adjustments |-> ra,
                  avg_roster_grade |-> avg_overall_grade,
                  avg_offensive_grade |->
                      MeanMetric(ra, "offensive", "avg_grade"),
                  avg_defensive_grade |->
                      MeanMetric(ra, "defensive", "avg_grade"),
                  roster_quality_tier |->
                      IF Truthy(avg_overall_grade)
                      THEN _get_roster_tier(avg_overall_grade)
                      ELSE "Unknown"])
          @@ g :
          g \in {adjusted_grades}, ra \in {roster_adjustments},
          avg_overall_grade \in
              {MeanMetric(roster_adjustments, "overall", "avg_grade")} } :
        TRUE

calculate_roster_adjusted_coaching_grade(pbp, cd, pg, coach_name, season) ==
    CHOOSE r \in
        { IF base_grades = None THEN None
          ELSE IF coach_teams = {} THEN base_grades
          ELSE IF DOMAIN roster_adjustments = {} THEN base_grades
          ELSE WithRosterContext(
                   Reblended(
                       AdjustUnit(
                           AdjustUnit(base_grades, roster_adjustments,
                                      "offensive", "offensive_overall"),
                           roster_adjustments, "defensive",
                           "defensive_overall"),
                       _determine_coach_specialty(coach_name, season)),
                   roster_adjustments) :
          base_grades \in
              {grade_coach_performance(pbp, cd, coach_name, season)},
          coach_teams \in {coach_teams_of(cd, coach_name, season)},
          roster_adjustments \in
              {RosterAdjustments(pg,
                   coach_teams_of(cd, coach_name, season),
                   RosterSeason(CoachEntries(cd, coach_name, season),
                                season))} } : TRUE

---------------------------------------------------------------------------
(* Specification of the coaching analytics: a schedule, play-by-play rows  *)
(* and a player table are loaded, extract_coaching_info builds the coach   *)
(* records, then coaches are graded.                                       *)

MaxGames == 2
MaxCoachPlays == 2
MaxRosterPlayers == 2

Coaches == {"Andy Reid", "Bill Belichick", "Dan Campbell", "Joe Nobody"}
Seasons == {NoSeason, 2023}

\* schedule rows; the 2024 game is not played yet
ScheduleGames ==
    << [game_id |-> "2023_01_DET_KC", season |-> 2023, week |-> 1,
        home_team |-> "KC", away_team |-> "DET",
        home_coach |-> "Andy Reid", away_coach |-> "Dan Campbell",
        home_score |-> 20, away_score |-> 21],
       [game_id |-> "2023_02_KC_NE", season |-> 2023, week |-> 2,
        home_team |-> "NE", away_team |-> "KC",
        home_coach |-> "Bill Belichick", away_coach |-> "Andy Reid",
        home_score |-> 17, away_score |-> 27],
       [game_id |-> "2023_03_NE_DET", season |-> 2023, week |-> 3,
        home_team |-> "DET", away_team |-> "NE",
        home_coach |-> Missing, away_coach |-> "Bill Belichick",
        home_score |-> 20, away_score |-> 20],
       [game_id |-> "2024_01_NE_KC", season |-> 2024, week |-> 1,
        home_team |-> "KC", away_team |-> "NE",
        home_coach |-> "Andy Reid", away_coach |-> "Bill Belichick",
        home_score |-> MissingNumber, away_score |-> MissingNumber] >>

\* a play with no statistics
CoachPlay(game_id, season, posteam, defteam, play_type) ==
    [game_id |-> game_id, season |-> season, posteam |-> posteam,
     defteam |-> defteam, play_type |-> play_type, down |-> 1,
     yardline_100 |-> 60, passing_yards |-> MissingNumber,
     complete_pass |-> 0, pass_touchdown |-> 0, interception |-> 0,
     sack |-> 0, rushing_yards |-> 0, rush_touchdown |-> 0,
     touchdown |-> 0, yards_gained |-> 0]

\* play-by-play rows in game order
PlayKinds ==
    << [CoachPlay("2023_01_DET_KC", 2023, "KC", "DET", "pass")
            EXCEPT !.passing_yards = 12, !.complete_pass = 1,
                   !.yards_gained = 12],
       [CoachPlay("2023_01_DET_KC", 2023, "KC", "DET", "pass")
            EXCEPT !.down = 2, !.yardline_100 = 10, !.passing_yards = 10,
                   !.complete_pass = 1, !.pass_touchdown = 1,
                   !.touchdown = 1, !.yards_gained = 10],
       [CoachPlay("2023_01_DET_KC", 2023, "KC", "DET", "run")
            EXCEPT !.down = 3, !.rushing_yards = 5, !.yards_gained = 5],
       [CoachPlay("2023_01_DET_KC", 2023, "DET", "KC", "pass")
            EXCEPT !.interception = 1],
       [CoachPlay("2023_01_DET_KC", 2023, "DET", "KC", "pass")
            EXCEPT !.down = 3, !.sack = 1],
       [CoachPlay("2023_02_KC_NE", 2023, "NE", "KC", "run")
            EXCEPT !.yardline_100 = 2, !.rushing_yards = 2,
                   !.rush_touchdown = 1, !.touchdown = 1,
                   !.yards_gained = 2],
       [CoachPlay("2023_02_KC_NE", 2023, "NE", "KC", "punt")
            EXCEPT !.down = 4] >>

\* rows of the per-player season table
PlayerRows ==
    << [player_id |-> "00-001", primary_team |-> "KC", season |-> 2023,
        position_group |-> "WR_TE", avg_grade |-> R(50),
        games_played |-> 1],
       [player_id |-> "00-002", primary_team |-> "KC", season |-> 2023,
        position_group |-> "OFFENSE", avg_grade |-> R(50),
        games_played |-> 5],
       [player_id |-> "00-003", primary_team |-> "NE", season |-> 2023,
        position_group |-> "DEFENSE", avg_grade |-> R(92),
        games_played |-> 17] >>

\* the sequences of at most n rows taken from rows in increasing position,
\* a position at most repeat times
RECURSIVE Selections(_, _, _, _)
Selections(rows, from, n, repeat) ==
    IF n = 0 \/ from > Len(rows) THEN {<<>>}
    ELSE Selections(rows, from + 1, n, repeat)
         \cup UNION { { prefix \o rest :
                            rest \in Selections(rows, from + 1,
                                                n - Len(prefix), repeat) } :
                      prefix \in { [i \in 1..k |-> rows[from]] :
                                       k \in 1..(IF n < repeat THEN n
                                                 ELSE repeat) } }

Schedules == Selections(ScheduleGames, 1, MaxGames, 1)
CoachPbps == Selections(PlayKinds, 1, MaxCoachPlays, MaxCoachPlays)

PlayerTables ==
    {None} \cup
    { [id \in {sel[i].player_id : i \in 1..Len(sel)} |->
          LET i == CHOOSE i \in 1..Len(sel) : sel[i].player_id = id
          IN  sel[i]] :
      sel \in Selections(PlayerRows, 1, MaxRosterPlayers, 1) }

InitCoach ==
    /\ IdleSource
    /\ op = "loaded"
    /\ schedule_data \in Schedules
    /\ coach_pbp_data \in CoachPbps
    /\ player_grades \in PlayerTables
    /\ coaching_data = <<>>
    /\ call = None
    /\ grades = None
    /\ IdleScore
    /\ IdleGrader
    /\ IdleLine

extract_coaching_info ==
    /\ op = "loaded"
    /\ coaching_data' = ExtractedCoaches(schedule_data)
    /\ op' = "extracted"
    /\ UNCHANGED <<schedule_data, coach_pbp_data, player_grades, call,
                   grades, notCoachVars>>

GradeCoach ==
    /\ op = "extracted"
    /\ \E coach_name \in Coaches, season \in Seasons :
           /\ call' = [coach_name |-> coach_name, season |-> season]
           /\ grades' = grade_coach_performance(coach_pbp_data,
                            coaching_data, coach_name, season)
    /\ op' = "graded"
    /\ UNCHANGED <<schedule_data, coaching_data, coach_pbp_data,
                   player_grades, notCoachVars>>

AdjustCoach ==
    /\ op = "extracted"
    /\ \E coach_name \in Coaches, season \in Seasons :
           /\ call' = [coach_name |-> coach_name, season |-> season]
           /\ grades' = calculate_roster_adjusted_coaching_grade(
                            coach_pbp_data, coaching_data, player_grades,
                            coach_name, season)
    /\ op' = "adjusted"
    /\ UNCHANGED <<schedule_data, coaching_data, coach_pbp_data,
                   player_grades, notCoachVars>>

NextCoach == extract_coaching_info \/ GradeCoach \/ AdjustCoach

SpecCoach == InitCoach /\ [][NextCoach]_vars

---------------------------------------------------------------------------
(* Claims about the coaching analytics.                                    *)

Within(x, low, high) == Le(R(low), x) /\ Le(x, R(high))

\* the adjustment factor the call computed for a unit, from the roster
\* context it returned
FactorOf(unit) ==
    calculate_adjustment_factor(
        MeanMetric(grades["roster_context"].roster_adjustments, unit,
                   "avg_grade"),
        MeanMetric(grades["roster_context"].roster_adjustments, unit,
                   "depth_score"))

MinGames == 3

C10_UnknownCoachUnavailable ==
    (op = "graded"
     /\ CoachEntries(coaching_data, call.coach_name, call.season) = <<>>)
        => grades = None

---------------------------------------------------------------------------
(* EnhancedNFLPlayerGrader: the line metrics of the run and pass plays.    *)
(* line_pbp holds, per team-week, how many plays of each kind the offense  *)
(* (posteam) ran against the defense (defteam); every column the code      *)
(* aggregates is a function of the kind of a play.                         *)

\* the kinds of play of line_pbp, with the play-by-play columns the line
\* metrics read; rushing_yards is NaN on a pass play
LineKinds == <<"pass_clean", "pass_hit", "pass_sack", "run_loss", "run_good">>

LinePlay ==
    [pass_clean |-> [play_type |-> "pass", sack |-> 0, qb_hit |-> 0,
                     rushing_yards |-> NaN],
     pass_hit   |-> [play_type |-> "pass", sack |-> 0, qb_hit |-> 1,
                     rushing_yards |-> NaN],
     pass_sack  |-> [play_type |-> "pass", sack |-> 1, qb_hit |-> 0,
                     rushing_yards |-> NaN],
     run_loss   |-> [play_type |-> "run", sack |-> 0, qb_hit |-> 0,
                     rushing_yards |-> R(0 - 2)],
     run_good   |-> [play_type |-> "run", sack |-> 0, qb_hit |-> 0,
                     rushing_yards |-> R(5)]]

\* the columns of a team_row of line_pbp after _add_line_metrics_to_pbp
_add_line_metrics_to_pbp(play) ==
    LET pressure == IF play.sack = 1 \/ play.qb_hit = 1 THEN 1 ELSE 0
        run == play.play_type = "run"
        negative == IF Lt(play.rushing_yards, R(0)) \/ play.sack = 1
                    THEN 1 ELSE 0
    IN  [sack |-> R(play.sack), qb_hit |-> R(play.qb_hit),
         rushing_yards |-> play.rushing_yards,
         pressure_allowed |-> R(pressure),
         pass_pro_success |->
             IF play.play_type = "pass" THEN R(1 - pressure) ELSE NaN,
         run_success |->
             IF run /\ Le(R(4), play.rushing_yards) THEN R(1)
             ELSE IF run THEN R(0) ELSE NaN,
         dline_pressure |-> R(pressure),
         run_stuff |->
             IF run /\ Le(play.rushing_yards, R(2)) THEN R(1)
             ELSE IF run THEN R(0) ELSE NaN,
         negative_play_allowed |-> R(negative),
         negative_play_created |-> R(negative)]

\* 'sum' of a column over the plays of a team-week, NaN cells skipped
RECURSIVE ColumnSum(_, _, _)
ColumnSum(plays, column, i) ==
    IF i > Len(LineKinds) THEN R(0)
    ELSE CHOOSE r \in
             { IF IsNaN(v) THEN rest ELSE Add(Mul(R(n), v), rest) :
               v \in {_add_line_metrics_to_pbp(LinePlay[LineKinds[i]])[column]},
               n \in {plays[LineKinds[i]]},
               rest \in {ColumnSum(plays, column, i + 1)} } : TRUE

\* the number of cells of a column that are not NaN
RECURSIVE ColumnCount(_, _, _)
ColumnCount(plays, column, i) ==
    IF i > Len(LineKinds) THEN 0
    ELSE (IF IsNaN(_add_line_metrics_to_pbp(LinePlay[LineKinds[i]])[column])
          THEN 0 ELSE plays[LineKinds[i]])
         + ColumnCount(plays, column, i + 1)

\* 'mean' of a column: NaN when every cell is NaN
ColumnMean(plays, column) ==
    CHOOSE r \in
        { IF count = 0 THEN NaN
          ELSE Div(ColumnSum(plays, column, 1), R(count)) :
          count \in {ColumnCount(plays, column, 1)} } : TRUE

\* 'count' of play_type: every team_row of line_pbp has one
TotalPlays(plays) ==
    plays.pass_clean + plays.pass_hit + plays.pass_sack + plays.run_loss
    + plays.run_good

\* line_pbp.groupby(['posteam', 'season', 'week']).agg(...)
_calculate_team_oline_performance(lp) ==
    [k \in DOMAIN lp |->
        [team |-> lp[k].posteam, season |-> lp[k].season,
         week |-> lp[k].week,
         pass_pro_rate |-> ColumnMean(lp[k].plays, "pass_pro_success"),
         pressure_rate |-> ColumnMean(lp[k].plays, "pressure_allowed"),
         sacks_allowed |-> ColumnSum(lp[k].plays, "sack", 1),
         qb_hits_allowed |-> ColumnSum(lp[k].plays, "qb_hit", 1),
         run_success_rate |-> ColumnMean(lp[k].plays, "run_success"),
         avg_rush_yards |-> ColumnMean(lp[k].plays, "rushing_yards"),
         negative_play_rate |->
             ColumnMean(lp[k].plays, "negative_play_allowed"),
         total_plays |-> TotalPlays(lp[k].plays)]]

\* line_pbp.groupby(['defteam', 'season', 'week']).agg(...)
_calculate_team_dline_performance(lp) ==
    [k \in DOMAIN lp |->
        [team |-> lp[k].defteam, season |-> lp[k].season,
         week |-> lp[k].week,
         pressure_rate |-> ColumnMean(lp[k].plays, "dline_pressure"),
         sacks |-> ColumnSum(lp[k].plays, "sack", 1),
         qb_hits |-> ColumnSum(lp[k].plays, "qb_hit", 1),
         run_stuff_rate |-> ColumnMean(lp[k].plays, "run_stuff"),
         avg_rush_yards_allowed |-> ColumnMean(lp[k].plays, "rushing_yards"),
         negative_play_rate |->
             ColumnMean(lp[k].plays, "negative_play_created"),
         total_plays |-> TotalPlays(lp[k].plays)]]

\* the pass-protection grade as a function of pass_pro_rate alone
_calculate_realistic_pass_pro_grade_rate_only(team_row) ==
    CHOOSE g \in
        { PyMax(PyMin(
              IF Le(Frac(3, 4), p)
              THEN Add(R(85), PyMin(R(10), Mul(Sub(p, Frac(3, 4)), R(40))))
              ELSE IF Le(Frac(7, 10), p)
              THEN Add(R(75), Mul(Sub(p, Frac(7, 10)), R(20)))
              ELSE IF Le(Frac(13, 20), p)
              THEN Add(R(65), Mul(Sub(p, Frac(13, 20)), R(20)))
              ELSE Add(R(45), Mul(p, R(30))),
              R(95)), R(35)) :
          p \in {team_row.pass_pro_rate} } : TRUE

_calculate_realistic_pass_pro_grade(team_row) ==
    CHOOSE g \in
        { PyMax(PyMin(Add(Add(base_grade, pressure_bonus), sack_bonus),
                      R(95)), R(35)) :
          base_grade \in
              { IF Le(Frac(3, 4), p)
                THEN Add(R(85),
                         PyMin(R(10), Mul(Sub(p, Frac(3, 4)), R(40))))
                ELSE IF Le(Frac(7, 10), p)
                THEN Add(R(75), Mul(Sub(p, Frac(7, 10)), R(20)))
                ELSE IF Le(Frac(13, 20), p)
                THEN Add(R(65), Mul(Sub(p, Frac(13, 20)), R(20)))
                ELSE Add(R(45), Mul(p, R(30))) :
                p \in {team_row.pass_pro_rate} },
          pressure_bonus \in
              { IF Le(q, Frac(1, 4)) THEN R(5)
                ELSE IF Le(q, Frac(7, 20)) THEN R(0)
                ELSE Sub(R(0), Mul(Sub(q, Frac(7, 20)), R(40))) :
                q \in {team_row.pressure_rate} },
          sack_bonus \in
              { IF s = R(0) THEN R(3)
                ELSE IF Le(s, R(1)) THEN R(1)
                ELSE IF Le(s, R(2)) THEN R(0)
                ELSE Sub(R(0), Mul(Sub(s, R(2)), R(4))) :
                s \in {team_row.sacks_allowed} } } : TRUE

_calculate_realistic_run_block_grade(team_row) ==
    CHOOSE g \in
        { PyMax(PyMin(Add(Add(base_grade, yards_bonus), negative_bonus),
                      R(90)), R(40)) :
          base_grade \in
              { IF Le(Frac(1, 2), r)
                THEN Add(R(80),
                         PyMin(R(15), Mul(Sub(r, Frac(1, 2)), R(30))))
                ELSE IF Le(Frac(2, 5), r)
                THEN Add(R(65), Mul(Sub(r, Frac(2, 5)), R(15)))
                ELSE Add(R(45), Mul(r, R(50))) :
                r \in {team_row.run_success_rate} },
          yards_bonus \in
              { IF Le(Frac(9, 2), y)
                THEN PyMin(R(8), Mul(Sub(y, Frac(9, 2)), R(10)))
                ELSE IF Le(R(4), y) THEN Mul(Sub(y, R(4)), R(6))
                ELSE Sub(R(0), Mul(Sub(R(4), y), R(5))) :
                y \in {team_row.avg_rush_yards} },
          negative_bonus \in
              { IF Le(n, Frac(1, 10)) THEN R(4)
                ELSE IF Le(n, Frac(3, 20)) THEN R(0)
                ELSE Sub(R(0), Mul(Sub(n, Frac(3, 20)), R(20))) :
                n \in {team_row.negative_play_rate} } } : TRUE

\* the pass-rush grade with a sack bonus of +5 per sack capped at +10
_calculate_realistic_pass_rush_grade_capped_at_10(team_row) ==
    CHOOSE g \in
        { PyMax(PyMin(Add(base_grade, sack_bonus), R(95)), R(35)) :
          base_grade \in
              { IF Le(Frac(7, 20), p)
                THEN Add(R(85),
                         PyMin(R(10), Mul(Sub(p, Frac(7, 20)), R(25))))
                ELSE IF Le(Frac(1, 4), p)
                THEN Add(R(70), Mul(Sub(p, Frac(1, 4)), R(15)))
                ELSE Add(R(50), Mul(p, R(80))) :
                p \in {team_row.pressure_rate} },
          sack_bonus \in {PyMin(Mul(team_row.sacks, R(5)), R(10))} } : TRUE

_calculate_realistic_pass_rush_grade(team_row) ==
    CHOOSE g \in
        { PyMax(PyMin(Add(base_grade, sack_bonus), R(95)), R(35)) :
          base_grade \in
              { IF Le(Frac(7, 20), p)
                THEN Add(R(85),
                         PyMin(R(10), Mul(Sub(p, Frac(7, 20)), R(25))))
                ELSE IF Le(Frac(1, 4), p)
                THEN Add(R(70), Mul(Sub(p, Frac(1, 4)), R(15)))
                ELSE Add(R(50), Mul(p, R(80))) :
                p \in {team_row.pressure_rate} },
          sack_bonus \in
              { IF Le(R(3), s)
                THEN Add(R(10), PyMin(R(5), Mul(Sub(s, R(3)), R(2))))
                ELSE IF Le(R(1), s) THEN Mul(s, R(5))
                ELSE R(0 - 3) :
                s \in {team_row.sacks} } } : TRUE

_calculate_realistic_run_defense_grade(team_row) ==
    CHOOSE g \in
        { PyMax(PyMin(Add(base_grade, yards_bonus), R(90)), R(40)) :
          base_grade \in
              { IF Le(Frac(3, 10), s)
                THEN Add(R(80),
                         PyMin(R(15), Mul(Sub(s, Frac(3, 10)), R(30))))
                ELSE IF Le(Frac(1, 5), s)
                THEN Add(R(65), Mul(Sub(s, Frac(1, 5)), R(15)))
                ELSE Add(R(50), Mul(s, R(75))) :
                s \in {team_row.run_stuff_rate} },
          yards_bonus \in
              { IF Le(y, Frac(7, 2))
                THEN PyMin(R(10), Mul(Sub(Frac(7, 2), y), R(8)))
                ELSE IF Le(y, Frac(43, 10)) THEN R(0)
                ELSE Sub(R(0), Mul(Sub(y, Frac(43, 10)), R(6))) :
                y \in {team_row.avg_rush_yards_allowed} } } : TRUE

\* (pass * 0.6) + (run * 0.4)
UnitOverall(pass_grade, run_grade) ==
    Add(Mul(pass_grade, Frac(3, 5)), Mul(run_grade, Frac(2, 5)))

\* calculate_team_oline_grades without the minimum-plays filter
calculate_team_oline_grades_unfiltered(lp, min_plays) ==
    LET performance == _calculate_team_oline_performance(lp)
    IN  [k \in DOMAIN performance |->
            CHOOSE d \in
                { [team |-> team_row.team, season |-> team_row.season,
                   week |-> team_row.week,
                   pass_protection_grade |-> pass_pro_grade,
                   run_blocking_grade |-> run_block_grade,
                   overall_oline_grade |-> overall_grade,
                   letter_grade |-> _numeric_to_letter_grade(overall_grade),
                   total_plays |-> team_row.total_plays,
                   pass_pro_success_rate |-> team_row.pass_pro_rate,
                   pressure_rate |-> team_row.pressure_rate,
                   run_success_rate |-> team_row.run_success_rate,
                   sacks_allowed |-> team_row.sacks_allowed] :
                  team_row \in {performance[k]},
                  pass_pro_grade \in
                      {_calculate_realistic_pass_pro_grade(performance[k])},
                  run_block_grade \in
                      {_calculate_realistic_run_block_grade(performance[k])},
                  overall_grade \in
                      {UnitOverall(
                           _calculate_realistic_pass_pro_grade(performance[k]),
                           _calculate_realistic_run_block_grade(
                               performance[k]))} } : TRUE]

\* the unit grades of the team-weeks with at least min_plays plays; the
\* table is empty when no team-week qualifies
calculate_team_oline_grades(lp, min_plays) ==
    LET performance == _calculate_team_oline_performance(lp)
        kept == {k \in DOMAIN performance :
                    performance[k].total_plays >= min_plays}
    IN  [k \in kept |->
            CHOOSE d \in
                { [team |-> team_row.team, season |-> team_row.season,
                   week |-> team_row.week,
                   pass_protection_grade |-> pass_pro_grade,
                   run_blocking_grade |-> run_block_grade,
                   overall_oline_grade |-> overall_grade,
                   letter_grade |-> _numeric_to_letter_grade(overall_grade),
                   total_plays |-> team_row.total_plays,
                   pass_pro_success_rate |-> team_row.pass_pro_rate,
                   pressure_rate |-> team_row.pressure_rate,
                   run_success_rate |-> team_row.run_success_rate,
                   sacks_allowed |-> team_row.sacks_allowed] :
                  team_row \in {performance[k]},
                  pass_pro_grade \in
                      {_calculate_realistic_pass_pro_grade(performance[k])},
                  run_block_grade \in
                      {_calculate_realistic_run_block_grade(performance[k])},
                  overall_grade \in
                      {UnitOverall(
                           _calculate_realistic_pass_pro_grade(performance[k]),
                           _calculate_realistic_run_block_grade(
                               performance[k]))} } : TRUE]

calculate_team_dline_grades(lp, min_plays) ==
    LET performance == _calculate_team_dline_performance(lp)
        kept == {k \in DOMAIN performance :
                    performance[k].total_plays >= min_plays}
    IN  [k \in kept |->
            CHOOSE d \in
                { [team |-> team_row.team, season |-> team_row.season,
                   week |-> team_row.week,
                   pass_rush_grade |-> pass_rush_grade,
                   run_defense_grade |-> run_defense_grade,
                   overall_dline_grade |-> overall_grade,
                   letter_grade |-> _numeric_to_letter_grade(overall_grade),
                   total_plays |-> team_row.total_plays,
                   pressure_rate |-> team_row.pressure_rate,
                   run_stuff_rate |-> team_row.run_stuff_rate,
                   sacks |-> team_row.sacks,
                   negative_play_rate |-> team_row.negative_play_rate] :
                  team_row \in {performance[k]},
                  pass_rush_grade \in
                      {_calculate_realistic_pass_rush_grade(performance[k])},
                  run_defense_grade \in
                      {_calculate_realistic_run_defense_grade(
                           performance[k])},
                  overall_grade \in
                      {UnitOverall(
                           _calculate_realistic_pass_rush_grade(performance[k]),
                           _calculate_realistic_run_defense_grade(
                               performance[k]))} } : TRUE]

---------------------------------------------------------------------------
(* Specification of the line-unit grades: the run and pass plays of one or *)
(* two team-weeks are loaded, then the O-line or the D-line units are      *)
(* graded.                                                                 *)

MaxLineSacks == 6

\* min_plays: int = 40
DefaultMinPlays == 40

MinPlaysArgs == {DefaultMinPlays, 20}

\* how many plays of each kind a team-week holds; a team-week has a play
TeamWeekPlays ==
    { [pass_clean |-> c, pass_hit |-> h, pass_sack |-> s, run_loss |-> l,
       run_good |-> g] :
      c \in {0, 16, 32}, h \in {0, 4}, s \in 0..MaxLineSacks,
      l \in {0, 2}, g \in {0, 8} }
    \ { [pass_clean |-> 0, pass_hit |-> 0, pass_sack |-> 0, run_loss |-> 0,
         run_good |-> 0] }

TeamWeek(week, plays) ==
    [posteam |-> "KC", defteam |-> "DET", season |-> 2023, week |-> week,
     plays |-> plays]

\* a second team-week: none, one of 48 plays, one of 20 plays
SecondWeeks ==
    { <<>>,
      "w2" :> TeamWeek(2, [pass_clean |-> 32, pass_hit |-> 4,
                           pass_sack |-> 2, run_loss |-> 2, run_good |-> 8]),
      "w2" :> TeamWeek(2, [pass_clean |-> 16, pass_hit |-> 0,
                           pass_sack |-> 2, run_loss |-> 2, run_good |-> 0]) }

\* line_pbp: empty, or week 1 and maybe week 2
LineTables ==
    { <<>> } \cup
    { ("w1" :> TeamWeek(1, plays)) @@ second :
      plays \in TeamWeekPlays, second \in SecondWeeks }

InitLine ==
    /\ IdleSource
    /\ op = "loaded"
    /\ line_pbp \in LineTables
    /\ line_snap_counts = {}
    /\ request = None
    /\ response = None
    /\ returned = <<>>
    /\ IdleScore
    /\ IdleGrader
    /\ IdleCoach

TeamOlineGrades ==
    /\ op = "loaded"
    /\ \E min_plays \in MinPlaysArgs :
           /\ request' = [min_plays |-> min_plays]
           /\ response' = calculate_team_oline_grades(line_pbp, min_plays)
    /\ op' = "team_oline"
    /\ UNCHANGED <<line_pbp, line_snap_counts, returned, notLineVars>>

TeamDlineGrades ==
    /\ op = "loaded"
    /\ \E min_plays \in MinPlaysArgs :
           /\ request' = [min_plays |-> min_plays]
           /\ response' = calculate_team_dline_grades(line_pbp, min_plays)
    /\ op' = "team_dline"
    /\ UNCHANGED <<line_pbp, line_snap_counts, returned, notLineVars>>

NextLine == TeamOlineGrades \/ TeamDlineGrades

SpecLine == InitLine /\ [][NextLine]_vars

\* C13: a team-week appears in the output of calculate_team_oline_grades or
\* calculate_team_dline_grades exactly when it has at least min_plays run
\* and pass plays.
C13_TeamWeeksWithMinPlays ==
    op \in {"team_oline", "team_dline"} =>
        DOMAIN response =
            {k \in DOMAIN line_pbp :
                 TotalPlays(line_pbp[k].plays) >= request.min_plays}

\* with the default of 40 plays one team-week of line_pbp has been graded
\* and the other left out
C13_Witness ==
    /\ op = "team_oline"
    /\ request.min_plays = DefaultMinPlays
    /\ DOMAIN line_pbp = {"w1", "w2"}
    /\ DOMAIN response = {"w1"}
    /\ TotalPlays(line_pbp["w1"].plays) = DefaultMinPlays
    /\ TotalPlays(line_pbp["w2"].plays) < DefaultMinPlays

\* the O-line unit rows graded from at least 40 plays at a pass_pro_rate
\* of 0.80
RowsAtPassPro80 ==
    {k \in DOMAIN response :
         /\ response[k].total_plays >= DefaultMinPlays
         /\ response[k].pass_pro_success_rate = Frac(4, 5)}

\* C17 (as stated): at pass_pro_rate = 0.80 the pass-protection sub-grade is
\* 87 whatever the pressure rate and the sacks allowed.
C17_PassPro80Is87 ==
    op = "team_oline" =>
        \A k \in RowsAtPassPro80 : response[k].pass_protection_grade = R(87)

\* C17 (amended): at pass_pro_rate = 0.80 the pass-protection sub-grade is
\* 87 plus the pressure bonus (+5 up to a pressure rate of 0.25, 0 up to
\* 0.35, -40 per unit of rate beyond) plus the sack bonus (+3 for no sack,
\* +1 for one, 0 for two, -4 per sack beyond two), clamped to [35, 95].
C17_PassPro80Is87PlusBonuses ==
    op = "team_oline" =>
        \A k \in RowsAtPassPro80 :
            LET q == response[k].pressure_rate
                s == response[k].sacks_allowed
                pressure_bonus ==
                    IF Le(q, Frac(1, 4)) THEN R(5)
                    ELSE IF Le(q, Frac(7, 20)) THEN R(0)
                    ELSE Mul(Sub(Frac(7, 20), q), R(40))
                sack_bonus ==
                    IF s = R(0) THEN R(3)
                    ELSE IF s = R(1) THEN R(1)
                    ELSE IF s = R(2) THEN R(0)
                    ELSE Mul(Sub(R(2), s), R(4))
                final == Add(R(87), Add(pressure_bonus, sack_bonus))
            IN  response[k].pass_protection_grade =
                    IF Lt(R(95), final) THEN R(95)
                    ELSE IF Lt(final, R(35)) THEN R(35)
                    ELSE final

\* a team-week of 40 plays at pass_pro_rate 0.80 with four sacks allowed
\* has been graded below 87
C17_Witness ==
    /\ op = "team_oline"
    /\ \E k \in RowsAtPassPro80 :
           /\ response[k].total_plays = DefaultMinPlays
           /\ response[k].sacks_allowed = R(4)
           /\ response[k].pass_protection_grade = R(84)

\* C18: for every graded team-week the O-line pass-protection sub-grade is
\* in [35, 95], the run-block sub-grade is in [40, 90], and the overall
\* grade is 0.6 * pass + 0.4 * run, hence in [37, 93]; also for team-weeks
\* with no run plays or no pass plays.
C18_OlineGradesInRange ==
    op = "team_oline" =>
        \A k \in DOMAIN response :
            /\ Within(response[k].pass_protection_grade, 35, 95)
            /\ Within(response[k].run_blocking_grade, 40, 90)
            /\ response[k].overall_oline_grade =
                   Add(Mul(Frac(3, 5), response[k].pass_protection_grade),
                       Mul(Frac(2, 5), response[k].run_blocking_grade))
            /\ Within(response[k].overall_oline_grade, 37, 93)

\* the base of the pass-rush grade, from the pressure rate
PassRushBase(p) ==
    IF Le(Frac(7, 20), p)
    THEN LET extra == Mul(Sub(p, Frac(7, 20)), R(25))
         IN  Add(R(85), IF Lt(R(10), extra) THEN R(10) ELSE extra)
    ELSE IF Le(Frac(1, 4), p) THEN Add(R(70), Mul(Sub(p, Frac(1, 4)), R(15)))
    ELSE Add(R(50), Mul(p, R(80)))

\* base + bonus clamped to [35, 95]
PassRushOf(p, bonus) ==
    LET final == Add(PassRushBase(p), bonus)
    IN  IF Lt(R(95), final) THEN R(95)
        ELSE IF Lt(final, R(35)) THEN R(35)
        ELSE final

\* the sack count of a graded D-line row, a whole number
SackCount(k) == response[k].sacks[1]

\* C19 (as stated): the sack-count bonus of the pass-rush sub-grade is
\* min(5 * s, 10) for every sack count s.
C19_SackBonusMin5sAnd10 ==
    op = "team_dline" =>
        \A k \in DOMAIN response :
            response[k].pass_rush_grade =
                PassRushOf(response[k].pressure_rate,
                           R(IF 5 * SackCount(k) < 10 THEN 5 * SackCount(k)
                             ELSE 10))

\* C19 (amended): the sack-count bonus of the pass-rush sub-grade is -3 for
\* no sack, 5 * s for one or two sacks, and 10 + min(5, 2 * (s - 3)) from
\* three sacks on, so it lies in [-3, 15].
C19_SackBonusByCount ==
    op = "team_dline" =>
        \A k \in DOMAIN response :
            LET s == SackCount(k)
                bonus == IF s = 0 THEN 0 - 3
                         ELSE IF s <= 2 THEN 5 * s
                         ELSE IF 2 * (s - 3) < 5 THEN 10 + 2 * (s - 3)
                         ELSE 15
            IN  /\ response[k].sacks[2] = 1
                /\ bonus >= 0 - 3 /\ bonus <= 15
                /\ response[k].pass_rush_grade =
                       PassRushOf(response[k].pressure_rate, R(bonus))

\* D-line units with no sack, and with six sacks at a pressure rate under
\* 0.25 (bonus 15, not clamped), have been graded
C19_Witness ==
    /\ op = "team_dline"
    /\ \E k \in DOMAIN response :
           /\ SackCount(k) = 6
           /\ Lt(response[k].pressure_rate, Frac(1, 4))
           /\ response[k].pass_rush_grade =
                  Add(Add(R(50), Mul(response[k].pressure_rate, R(80))), R(15))
           /\ Lt(response[k].pass_rush_grade, R(95))

---------------------------------------------------------------------------
(* EnhancedNFLPlayerGrader: the grades of individual line players, from    *)
(* the snap counts when there are any and estimated per team-week from the *)
(* play-by-play otherwise.  A snap-count row is a row of line_snap_counts: *)
(* the snap counts merged with the roster position by player name.         *)

oline_positions == {"C", "G", "LG", "RG", "T", "LT", "RT", "OL"}

dline_positions == {"DE", "DT", "NT", "EDGE", "DL"}

\* the grade of a performance score scaled by the snap factor and clamped
\* to [35, 90]; offense_pct is the player's share of the snaps
_calculate_oline_position_grade(position, offense_pct, team_performance) ==
    CHOOSE g \in
        { PyMax(PyMin(
              Mul(IF Le(Frac(3, 5), performance_score)
                  THEN Add(R(75), Mul(Sub(performance_score, Frac(3, 5)),
                                      R(50)))
                  ELSE IF Le(Frac(1, 2), performance_score)
                  THEN Add(R(65), Mul(Sub(performance_score, Frac(1, 2)),
                                      R(10)))
                  ELSE Add(R(45), Mul(performance_score, R(40))),
                  snap_factor),
              R(90)), R(35)) :
          snap_factor \in
              {Add(Frac(4, 5), Mul(Div(offense_pct, R(100)), Frac(2, 5)))},
          performance_score \in
              { IF position \in {"LT", "RT"}
                THEN Add(Mul(team_pass_pro, Frac(7, 10)),
                         Mul(team_run_success, Frac(3, 10)))
                ELSE IF position = "C"
                THEN Add(Mul(team_pass_pro, Frac(1, 2)),
                         Mul(team_run_success, Frac(1, 2)))
                ELSE Add(Mul(team_pass_pro, Frac(3, 10)),
                         Mul(team_run_success, Frac(7, 10))) :
                team_pass_pro \in {team_performance.pass_pro_rate},
                team_run_success \in {team_performance.run_success_rate} } } :
        TRUE

_calculate_dline_position_grade(position, defense_pct, team_performance) ==
    CHOOSE g \in
        { PyMax(PyMin(
              Mul(IF Le(Frac(7, 20), performance_score)
                  THEN Add(R(75), Mul(Sub(performance_score, Frac(7, 20)),
                                      R(60)))
                  ELSE IF Le(Frac(1, 4), performance_score)
                  THEN Add(R(65), Mul(Sub(performance_score, Frac(1, 4)),
                                      R(10)))
                  ELSE Add(R(45), Mul(performance_score, R(80))),
                  snap_factor),
              R(90)), R(35)) :
          snap_factor \in
              {Add(Frac(4, 5), Mul(Div(defense_pct, R(100)), Frac(2, 5)))},
          performance_score \in
              { IF position \in {"DE", "EDGE"}
                THEN Add(Mul(team_pressure, Frac(4, 5)),
                         Mul(team_stuff_rate, Frac(1, 5)))
                ELSE IF position \in {"DT", "NT"}
                THEN Add(Mul(team_pressure, Frac(3, 10)),
                         Mul(team_stuff_rate, Frac(7, 10)))
                ELSE Add(Mul(team_pressure, Frac(3, 5)),
                         Mul(team_stuff_rate, Frac(2, 5))) :
                team_pressure \in {team_performance.pressure_rate},
                team_stuff_rate \in {team_performance.run_stuff_rate} } } :
        TRUE

\* one dict of individual_grades of an offensive lineman
OlineGrade(player_id, player_name, position, snaps, snap_pct, grade_pct, team_perf) ==
    CHOOSE d \in
        { [player_id |-> player_id, player_name |-> player_name,
           position |-> position, team |-> team_perf.team,
           season |-> team_perf.season, week |-> team_perf.week,
           snaps |-> snaps, snap_pct |-> snap_pct,
           individual_grade |-> position_grade,
           letter_grade |-> _numeric_to_letter_grade(position_grade),
           team_pass_pro |-> team_perf.pass_pro_rate,
           team_run_success |-> team_perf.run_success_rate,
           team_pressure_allowed |-> team_perf.pressure_rate] :
          position_grade \in
              {_calculate_oline_position_grade(position, grade_pct,
                                               team_perf)} } : TRUE

\* one dict of individual_grades of a defensive lineman
DlineGrade(player_id, player_name, position, snaps, snap_pct, grade_pct, team_perf) ==
    CHOOSE d \in
        { [player_id |-> player_id, player_name |-> player_name,
           position |-> position, team |-> team_perf.team,
           season |-> team_perf.season, week |-> team_perf.week,
           snaps |-> snaps, snap_pct |-> snap_pct,
           individual_grade |-> position_grade,
           letter_grade |-> _numeric_to_letter_grade(position_grade),
           team_pressure_rate |-> team_perf.pressure_rate,
           team_run_stuff_rate |-> team_perf.run_stuff_rate,
           team_negative_plays |-> team_perf.negative_play_rate] :
          position_grade \in
              {_calculate_dline_position_grade(position, grade_pct,
                                               team_perf)} } : TRUE

\* the estimated grades: five mock linemen per team-week, each with a
\* player_id of its own; min_games is not read
_calculate_oline_grades_from_pbp(lp, min_games) ==
    LET performance == _calculate_team_oline_performance(lp)
        positions == <<"LT", "LG", "C", "RG", "RT">>
    IN  { OlineGrade(performance[k].team \o "_" \o positions[i] \o "_"
                         \o ToString(performance[k].week),
                     performance[k].team \o " " \o positions[i],
                     positions[i], 55, R(85), R(85 + (i - 1) * 2),
                     performance[k]) :
          k \in DOMAIN performance, i \in 1..5 }

\* the estimated grades of a four-man front per team-week
_calculate_dline_grades_from_pbp(lp, min_games) ==
    LET performance == _calculate_team_dline_performance(lp)
        positions == <<"DE", "DT", "DE", "DT">>
    IN  { DlineGrade(performance[k].team \o "_" \o positions[i] \o "_"
                         \o ToString(i - 1) \o "_"
                         \o ToString(performance[k].week),
                     performance[k].team \o " " \o positions[i] \o " "
                         \o ToString(i),
                     positions[i], 45, R(75), R(80 + (i - 1) * 3),
                     performance[k]) :
          k \in DOMAIN performance, i \in 1..4 }

\* the rows of a grade table whose player_id has at least min_games rows
QualifiedPlayers(grades_df, min_games) ==
    {g \in grades_df :
         Cardinality({h \in grades_df : h.player_id = g.player_id})
             >= min_games}

\* the snap counts carry the player's name and no player_id, so the name is
\* the player_id of a graded row
calculate_individual_oline_grades(lp, snaps, min_games) ==
    LET oline_snap_counts == {p \in snaps : p.position \in oline_positions}
        oline_players == {p \in oline_snap_counts : p.offense_snaps >= 20}
        performance == _calculate_team_oline_performance(lp)
    IN  IF oline_snap_counts = {} \/ oline_players = {}
        THEN _calculate_oline_grades_from_pbp(lp, min_games)
        ELSE QualifiedPlayers(
                 { OlineGrade(pk[1].player, pk[1].player, pk[1].position,
                              pk[1].offense_snaps, pk[1].offense_pct,
                              pk[1].offense_pct, performance[pk[2]]) :
                   pk \in {x \in oline_players \X DOMAIN performance :
                              /\ performance[x[2]].team = x[1].team
                              /\ performance[x[2]].season = x[1].season
                              /\ performance[x[2]].week = x[1].week} },
                 min_games)

calculate_individual_dline_grades(lp, snaps, min_games) ==
    LET dline_snap_counts == {p \in snaps : p.position \in dline_positions}
        dline_players == {p \in dline_snap_counts : p.defense_snaps >= 15}
        performance == _calculate_team_dline_performance(lp)
    IN  IF dline_snap_counts = {} \/ dline_players = {}
        THEN _calculate_dline_grades_from_pbp(lp, min_games)
        ELSE QualifiedPlayers(
                 { DlineGrade(pk[1].player, pk[1].player, pk[1].position,
                              pk[1].defense_snaps, pk[1].defense_pct,
                              pk[1].defense_pct, performance[pk[2]]) :
                   pk \in {x \in dline_players \X DOMAIN performance :
                              /\ performance[x[2]].team = x[1].team
                              /\ performance[x[2]].season = x[1].season
                              /\ performance[x[2]].week = x[1].week} },
                 min_games)

---------------------------------------------------------------------------
(* Specification of the individual line grades: line_pbp and the snap      *)
(* counts of a tackle and of a defensive end are loaded, then the          *)
(* individual O-line or D-line grades are calculated.                      *)

\* min_games: int = 3
DefaultMinGames == 3

MinGamesArgs == {1, 2, DefaultMinGames}

\* a snap-count row of a lineman; snaps are out of 60
SnapRow(player, position, team, week, snaps) ==
    [player |-> player, position |-> position, team |-> team,
     season |-> 2023, week |-> week,
     offense_snaps |-> IF position \in oline_positions THEN snaps ELSE 0,
     offense_pct |-> IF position \in oline_positions THEN Frac(snaps, 60)
                     ELSE R(0),
     defense_snaps |-> IF position \in dline_positions THEN snaps ELSE 0,
     defense_pct |-> IF position \in dline_positions THEN Frac(snaps, 60)
                     ELSE R(0)]

\* per player-week: no row, a row of 10 snaps, or a row of 60 snaps
SnapTables ==
    { { SnapRow("J.Taylor", "LT", "KC", w, t[w]) :
            w \in {x \in 1..2 : t[x] > 0} }
      \cup { SnapRow("A.Hutchinson", "DE", "DET", w, e[w]) :
                 w \in {x \in 1..2 : e[x] > 0} } :
      t \in [1..2 -> {0, 10, 60}], e \in [1..2 -> {0, 10, 60}] }

PlayerLineTables ==
    { <<>> } \cup
    { ("w1" :> TeamWeek(1, plays)) @@ second :
      plays \in { [pass_clean |-> 32, pass_hit |-> 4, pass_sack |-> 4,
                   run_loss |-> 0, run_good |-> 8],
                  [pass_clean |-> 16, pass_hit |-> 4, pass_sack |-> 0,
                   run_loss |-> 2, run_good |-> 0],
                  [pass_clean |-> 0, pass_hit |-> 0, pass_sack |-> 0,
                   run_loss |-> 2, run_good |-> 8] },
      second \in SecondWeeks }

InitLinePlayers ==
    /\ IdleSource
    /\ op = "loaded"
    /\ line_pbp \in PlayerLineTables
    /\ line_snap_counts \in SnapTables
    /\ request = None
    /\ response = None
    /\ returned = <<>>
    /\ IdleScore
    /\ IdleGrader
    /\ IdleCoach

IndividualOlineGrades ==
    /\ op = "loaded"
    /\ \E min_games \in MinGamesArgs :
           /\ request' = [min_games |-> min_games]
           /\ response' = calculate_individual_oline_grades(
                              line_pbp, line_snap_counts, min_games)
    /\ op' = "individual_oline"
    /\ UNCHANGED <<line_pbp, line_snap_counts, returned, notLineVars>>

IndividualDlineGrades ==
    /\ op = "loaded"
    /\ \E min_games \in MinGamesArgs :
           /\ request' = [min_games |-> min_games]
           /\ response' = calculate_individual_dline_grades(
                              line_pbp, line_snap_counts, min_games)
    /\ op' = "individual_dline"
    /\ UNCHANGED <<line_pbp, line_snap_counts, returned, notLineVars>>

NextLinePlayers == IndividualOlineGrades \/ IndividualDlineGrades

SpecLinePlayers == InitLinePlayers /\ [][NextLinePlayers]_vars

\* C12: every individual grade record returned for min_games belongs to a
\* player who has at least min_games graded records in that category, on
\* the snap-count path and on the play-by-play fallback alike.
C12_RecordsOfQualifiedPlayersOnly ==
    op \in {"individual_oline", "individual_dline"} =>
        \A g \in response :
            Cardinality({h \in response : h.player_id = g.player_id})
                >= request.min_games

---------------------------------------------------------------------------
(* Claims about the tackle tallies and about malformed play events.        *)

\* how often a player is named in a slot over the plays of a season-week
SlotCount(p, week, season, slot) ==
    Cardinality({i \in 1..Len(pbp_data) :
                    /\ pbp_data[i].week = week /\ pbp_data[i].season = season
                    /\ pbp_data[i][slot] = p})

MalformedPlays ==
    { [PlainPlay(1, 2023) EXCEPT !.solo_tackle_1 = PlayerA],
      [PlainPlay(1, 2023) EXCEPT !.assist_tackle_1 = PlayerA,
                                 !.assist_tackle_2 = PlayerB],
      SackPlay(1, 2023, 1, PlayerB, NoPlayer, NoPlayer),
      [PlainPlay(1, 2023) EXCEPT
          !.solo_tackle_1 = [id |-> Missing, name |-> PlayerA.name]],
      [PlainPlay(1, 2023) EXCEPT
          !.solo_tackle_1 = PlayerB,
          !.assist_tackle_1 = [id |-> Missing, name |-> PlayerA.name]],
      SackPlay(1, 2023, 1, [id |-> Missing, name |-> PlayerB.name],
               NoPlayer, NoPlayer),
      [PlainPlay(1, MissingNumber) EXCEPT !.solo_tackle_1 = PlayerA] }

InitMalformed ==
    /\ IdleSource
    /\ op = "loaded"
    /\ pbp_data \in SeqsUpTo(MalformedPlays, MaxPlays)
    /\ defensive_weekly = {}
    /\ IdleScore
    /\ IdleCoach
    /\ IdleLine

SpecMalformed == InitMalformed /\ [][NextDefense]_vars

\* the events of pbp_data that name a participant and lack its id or the
\* season
MalformedEvents ==
    {d \in defensive_stats_list(pbp_data) :
         d.player_id = Missing \/ d.season = MissingNumber}

\* C14: a play event that names a participant without an id, or on a row
\* without a season, is skipped: it is tallied in no row, every other event
\* is tallied as if the malformed ones were not there, and defensive_weekly
\* is built.
C14_MalformedEventSkipped ==
    op = "prepared" =>
        /\ \A r \in defensive_weekly :
               r.player_id # Missing /\ r.season # MissingNumber
        /\ \A p \in {PlayerA, PlayerB} :
               LET solo == SlotCount(p, 1, 2023, "solo_tackle_1")
                   assist == SlotCount(p, 1, 2023, "assist_tackle_1")
                             + SlotCount(p, 1, 2023, "assist_tackle_2")
                   sacks == Cardinality(
                                {i \in SackPlaysOf(1, 2023) :
                                     pbp_data[i].sack_player = p})
               IN  /\ \A r \in RowsOf(p, 1, 2023) :
                          /\ r.solo_tackles = solo
                          /\ r.assist_tackles = assist
                          /\ r.sacks = R(sacks)
                   /\ solo + assist + sacks > 0 =>
                          Cardinality(RowsOf(p, 1, 2023)) = 1

\* a table was built from a malformed event next to two well-formed ones,
\* and holds the tallies of the latter
C14_Witness ==
    /\ op = "prepared"
    /\ MalformedEvents # {}
    /\ \E r \in RowsOf(PlayerA, 1, 2023) : r.solo_tackles = 1
    /\ \E r \in RowsOf(PlayerB, 1, 2023) : r.sacks = R(1)

---------------------------------------------------------------------------
(* The roster tier of an average grade.                                    *)

MinTierHalves == 110

MaxTierHalves == 170

\* average grades from 55 to 85 in steps of one half, and the NaN of a
\* roster without grades
TierGrades == {Frac(n, 2) : n \in MinTierHalves..MaxTierHalves} \cup {NaN}

InitTier ==
    /\ IdleSource
    /\ op = "input"
    /\ request \in {[avg_grade |-> g] : g \in TierGrades}
    /\ response = None
    /\ line_pbp = <<>> /\ line_snap_counts = {} /\ returned = <<>>
    /\ IdleScore
    /\ IdleGrader
    /\ IdleCoach

\* analytics._get_roster_tier(avg_grade)
RosterTier ==
    /\ op = "input"
    /\ op' = "tiered"
    /\ response' = [roster_tier |-> _get_roster_tier(request.avg_grade)]
    /\ UNCHANGED <<request, line_pbp, line_snap_counts, returned>>
    /\ UNCHANGED notLineVars

NextTier == RosterTier

SpecTier == InitTier /\ [][NextTier]_vars

TierRank(tier) ==
    CASE tier = "Poor" -> 0
      [] tier = "Below Average" -> 1
      [] tier = "Average" -> 2
      [] tier = "Good" -> 3
      [] tier = "Very Good" -> 3
      [] tier = "Elite" -> 4

\* C20 (as stated): the tier is Elite from 72, Good from 68, Average from
\* 64, Below Average from 60 and Poor otherwise; the mapping is total and
\* monotone.
C20_TierBreakpoints72 ==
    op = "tiered" =>
        LET g == request.avg_grade
        IN  /\ response.roster_tier =
                   IF Le(R(72), g) THEN "Elite"
                   ELSE IF Le(R(68), g) THEN "Good"
                   ELSE IF Le(R(64), g) THEN "Average"
                   ELSE IF Le(R(60), g) THEN "Below Average"
                   ELSE "Poor"
            /\ \A h \in TierGrades :
                   Le(h, g) => TierRank(_get_roster_tier(h))
                               <= TierRank(response.roster_tier)

\* C20 (amended): the tier is Elite from 80, Very Good from 75, Average
\* from 70, Below Average from 65 and Poor otherwise (a NaN average
\* included); the mapping is total and monotone.
C20_TierBreakpoints80 ==
    op = "tiered" =>
        LET g == request.avg_grade
        IN  /\ Le(R(80), g) <=> response.roster_tier = "Elite"
            /\ Le(R(75), g) /\ Lt(g, R(80))
                   <=> response.roster_tier = "Very Good"
            /\ Le(R(70), g) /\ Lt(g, R(75))
                   <=> response.roster_tier = "Average"
            /\ Le(R(65), g) /\ Lt(g, R(70))
                   <=> response.roster_tier = "Below Average"
            /\ Lt(g, R(65)) \/ IsNaN(g) <=> response.roster_tier = "Poor"
            /\ \A h \in TierGrades :
                   Le(h, g) => TierRank(_get_roster_tier(h))
                               <= TierRank(response.roster_tier)

\* an average grade of 72 was classified, as Average
C20_Witness ==
    /\ op = "tiered"
    /\ request.avg_grade = R(72)
    /\ response.roster_tier = "Average"

---------------------------------------------------------------------------
(* The top players of GET /grades.                                         *)

MaxBoardRows == 3

BoardNames == <<"A.Able", "B.Baker", "C.Cole">>

\* the place of a player name in lexicographic order
NameRank(player_name) ==
    CHOOSE k \in 1..Len(BoardNames) : BoardNames[k] = player_name

\* player-game grade rows, in the order of the weekly rows they come from
BoardRows ==
    {[player_name |-> BoardNames[k], numeric_grade |-> g] :
        k \in 1..Len(BoardNames), g \in {R(70), R(90)}}

\* the position of the first row with the largest numeric_grade
FirstLargest(df) ==
    CHOOSE i \in 1..Len(df) :
        /\ \A j \in 1..Len(df) : Le(df[j].numeric_grade, df[i].numeric_grade)
        /\ \A j \in 1..(i - 1) : df[j].numeric_grade # df[i].numeric_grade

RECURSIVE nlargest(_, _)
\* df.nlargest(n, 'numeric_grade'): the n largest rows in descending order,
\* equal grades in their order of appearance (keep='first')
nlargest(df, n) ==
    IF n <= 0 \/ Len(df) = 0 THEN <<>>
    ELSE LET i == FirstLargest(df)
         IN  <<df[i]>>
             \o nlargest(SubSeq(df, 1, i - 1) \o SubSeq(df, i + 1, Len(df)),
                         n - 1)

InitBoard ==
    /\ IdleSource
    /\ op = "input"
    /\ request \in {[combined_grades |-> df, limit |-> n] :
                       df \in SeqsUpTo(BoardRows, MaxBoardRows),
                       n \in {2, 20}}
    /\ response = None
    /\ line_pbp = <<>> /\ line_snap_counts = {} /\ returned = <<>>
    /\ IdleScore
    /\ IdleGrader
    /\ IdleCoach

\* get_player_grades from the combined grade table on
TopPlayers ==
    /\ op = "input"
    /\ op' = "top_players"
    /\ response' =
           [status |-> "success",
            data |-> nlargest(request.combined_grades, request.limit)]
    /\ UNCHANGED <<request, line_pbp, line_snap_counts, returned>>
    /\ UNCHANGED notLineVars

NextBoard == TopPlayers

SpecBoard == InitBoard /\ [][NextBoard]_vars

\* C15: the top players are in descending order of numeric grade, and
\* players of equal grade are in lexicographic order of name.
C15_LeaderboardOrder ==
    op = "top_players" =>
        \A i \in 1..Len(response.data), j \in 1..Len(response.data) :
            i < j =>
                LET a == response.data[i]
                    b == response.data[j]
                IN  /\ Le(b.numeric_grade, a.numeric_grade)
                    /\ a.numeric_grade = b.numeric_grade
                           => NameRank(a.player_name) <= NameRank(b.player_name)

---------------------------------------------------------------------------
(* Repeated calls on one loaded analytics instance and its player grader.  *)

MaxCalls == 2

\* the tables the instance holds after load_data and extract_coaching_info
Self ==
    [pbp_data |-> coach_pbp_data, schedule_data |-> schedule_data,
     coaching_data |-> coaching_data, player_grades |-> player_grades,
     line_pbp |-> line_pbp, line_snap_counts |-> line_snap_counts]

\* the line tables of the dict calculate_all_grades returns; the team
\* tables are computed with the default min_plays
calculate_all_grades(lp, snaps, min_games) ==
    [team_oline_grades |-> calculate_team_oline_grades(lp, DefaultMinPlays),
     team_dline_grades |-> calculate_team_dline_grades(lp, DefaultMinPlays),
     individual_oline_grades |->
         calculate_individual_oline_grades(lp, snaps, min_games),
     individual_dline_grades |->
         calculate_individual_dline_grades(lp, snaps, min_games)]

\* a call of grade_coach_performance that keeps the coach's plays as the
\* instance's pbp_data
CallGradeCoach_keeping_coach_plays(self, coach_name, season) ==
    [self |->
         [self EXCEPT !.pbp_data =
             ConcatGamePlays(
                 CoachGames(CoachEntries(self.coaching_data, coach_name,
                                         season), 1),
                 1, self.pbp_data, "posteam")],
     result |-> grade_coach_performance(self.pbp_data, self.coaching_data,
                                        coach_name, season)]

\* a call on the instance: the instance after the call and what the call
\* returned; no method assigns to a field of the instance
CallGradeCoach(self, coach_name, season) ==
    [self |-> self,
     result |-> grade_coach_performance(self.pbp_data, self.coaching_data,
                                        coach_name, season)]

CallAdjustCoach(self, coach_name, season) ==
    [self |-> self,
     result |-> calculate_roster_adjusted_coaching_grade(
                    self.pbp_data, self.coaching_data, self.player_grades,
                    coach_name, season)]

CallAllGrades(self, min_games) ==
    [self |-> self,
     result |-> calculate_all_grades(self.line_pbp, self.line_snap_counts,
                                     min_games)]

\* the instance's tables become those of self
SelfBecomes(self) ==
    /\ coach_pbp_data' = self.pbp_data
    /\ schedule_data' = self.schedule_data
    /\ coaching_data' = self.coaching_data
    /\ player_grades' = self.player_grades
    /\ line_pbp' = self.line_pbp
    /\ line_snap_counts' = self.line_snap_counts

RepeatCoaches == {"Andy Reid", "Joe Nobody"}

RepeatPlayerTables ==
    { None,
      [id \in {PlayerRows[i].player_id : i \in 1..Len(PlayerRows)} |->
          PlayerRows[CHOOSE i \in 1..Len(PlayerRows) :
                         PlayerRows[i].player_id = id]] }

RepeatLineTables ==
    { "w1" :> TeamWeek(1, [pass_clean |-> 32, pass_hit |-> 4,
                           pass_sack |-> 4, run_loss |-> 0, run_good |-> 8]),
      ("w1" :> TeamWeek(1, [pass_clean |-> 16, pass_hit |-> 4,
                            pass_sack |-> 0, run_loss |-> 2, run_good |-> 0]))
      @@ ("w2" :> TeamWeek(2, [pass_clean |-> 32, pass_hit |-> 4,
                               pass_sack |-> 2, run_loss |-> 2,
                               run_good |-> 8])) }

RepeatSnapTables ==
    { {},
      { SnapRow("J.Taylor", "LT", "KC", w, 60) : w \in 1..2 }
      \cup { SnapRow("A.Hutchinson", "DE", "DET", w, 60) : w \in 1..2 } }

InitRepeat ==
    /\ IdleSource
    /\ op = "extracted"
    /\ coach_pbp_data \in {PlayKinds, SubSeq(PlayKinds, 1, 3)}
    /\ schedule_data = ScheduleGames
    /\ coaching_data = ExtractedCoaches(schedule_data)
    /\ player_grades \in RepeatPlayerTables
    /\ line_pbp \in RepeatLineTables
    /\ line_snap_counts \in RepeatSnapTables
    /\ call = None
    /\ grades = None
    /\ request = None
    /\ response = None
    /\ returned = <<>>
    /\ IdleScore
    /\ IdleGrader

RepeatGradeCoach ==
    /\ op \in {"extracted", "called"}
    /\ Len(returned) < MaxCalls
    /\ \E coach_name \in RepeatCoaches, season \in {2023} :
           \E out \in {CallGradeCoach(Self, coach_name, season)} :
               /\ call' = [coach_name |-> coach_name, season |-> season]
               /\ grades' = out.result
               /\ SelfBecomes(out.self)
               /\ returned' =
                      Append(returned,
                             [method |-> "grade_coach_performance",
                              args |-> call', result |-> out.result])
    /\ op' = "called"
    /\ UNCHANGED <<request, response, scoreVars, graderVars, sourceVars>>

RepeatAdjustCoach ==
    /\ op \in {"extracted", "called"}
    /\ Len(returned) < MaxCalls
    /\ \E coach_name \in RepeatCoaches, season \in {2023} :
           \E out \in {CallAdjustCoach(Self, coach_name, season)} :
               /\ call' = [coach_name |-> coach_name, season |-> season]
               /\ grades' = out.result
               /\ SelfBecomes(out.self)
               /\ returned' =
                      Append(returned,
                             [method |->
                                  "calculate_roster_adjusted_coaching_grade",
                              args |-> call', result |-> out.result])
    /\ op' = "called"
    /\ UNCHANGED <<request, response, scoreVars, graderVars, sourceVars>>

RepeatAllGrades ==
    /\ op \in {"extracted", "called"}
    /\ Len(returned) < MaxCalls
    /\ \E min_games \in {1, DefaultMinGames} :
           \E out \in {CallAllGrades(Self, min_games)} :
               /\ request' = [min_games |-> min_games]
               /\ response' = out.result
               /\ SelfBecomes(out.self)
               /\ returned' =
                      Append(returned,
                             [method |-> "calculate_all_grades",
                              args |-> request', result |-> out.result])
    /\ op' = "called"
    /\ UNCHANGED <<call, grades, scoreVars, graderVars, sourceVars>>

NextRepeat == RepeatGradeCoach \/ RepeatAdjustCoach \/ RepeatAllGrades

SpecRepeat == InitRepeat /\ [][NextRepeat]_vars

---------------------------------------------------------------------------
(* The coaching efficiency leaders.                                        *)

\* get_all_coaches: the coaches with a record of the season (of any season
\* when season is None)
get_all_coaches(cd, season) ==
    {cd[i].name :
        i \in {j \in 1..Len(cd) : season = NoSeason \/ cd[j].season = season}}

\* the dict appended to efficiency_data, with the base grade taken for the
\* adjusted one
EfficiencyData_of_base_grade(pbp, cd, pg, coach, season) ==
    CHOOSE rows \in
        { IF NonEmpty(adjusted_grades) /\ NonEmpty(base_grades)
             /\ "roster_context" \in DOMAIN adjusted_grades
          THEN { [coach |-> coach,
                  base_grade |-> Get(base_grades, "overall", R(0)),
                  adjusted_grade |-> Get(adjusted_grades, "overall", R(0)),
                  roster_grade |->
                      adjusted_grades["roster_context"].avg_roster_grade,
                  efficiency |->
                      Sub(Get(base_grades, "overall", R(0)),
                          adjusted_grades["roster_context"].avg_roster_grade),
                  roster_tier |->
                      _get_roster_tier(
                          adjusted_grades["roster_context"].avg_roster_grade)]
               }
          ELSE {} :
          adjusted_grades \in
              {calculate_roster_adjusted_coaching_grade(pbp, cd, pg, coach,
                                                        season)},
          base_grades \in
              {grade_coach_performance(pbp, cd, coach, season)} } : TRUE

\* the dict appended to efficiency_data for a coach, if any
EfficiencyData(pbp, cd, pg, coach, season) ==
    CHOOSE rows \in
        { IF NonEmpty(adjusted_grades) /\ NonEmpty(base_grades)
             /\ "roster_context" \in DOMAIN adjusted_grades
          THEN { [coach |-> coach,
                  base_grade |-> Get(base_grades, "overall", R(0)),
                  adjusted_grade |-> Get(adjusted_grades, "overall", R(0)),
                  roster_grade |->
                      adjusted_grades["roster_context"].avg_roster_grade,
                  efficiency |->
                      Sub(Get(adjusted_grades, "overall", R(0)),
                          adjusted_grades["roster_context"].avg_roster_grade),
                  roster_tier |->
                      _get_roster_tier(
                          adjusted_grades["roster_context"].avg_roster_grade)]
               }
          ELSE {} :
          adjusted_grades \in
              {calculate_roster_adjusted_coaching_grade(pbp, cd, pg, coach,
                                                        season)},
          base_grades \in
              {grade_coach_performance(pbp, cd, coach, season)} } : TRUE

\* the orders sort_values('efficiency', ascending=False) can leave the rows
\* in: descending, NaN last, rows of equal efficiency in any order
SortedByEfficiency(rows) ==
    { s \in [1..Cardinality(rows) -> rows] :
        /\ \A i, j \in DOMAIN s : i # j => s[i] # s[j]
        /\ \A i, j \in DOMAIN s :
               i < j => /\ ~Lt(s[i].efficiency, s[j].efficiency)
                        /\ IsNaN(s[i].efficiency) => IsNaN(s[j].efficiency) }

\* what get_coaching_efficiency_leaders can return
get_coaching_efficiency_leaders(pbp, cd, pg, season) ==
    LET efficiency_data ==
            UNION {EfficiencyData(pbp, cd, pg, coach, season) :
                       coach \in get_all_coaches(cd, season)}
    IN  IF efficiency_data = {} THEN {None}
        ELSE {[efficiency_df |-> s] : s \in SortedByEfficiency(efficiency_data)}

EfficiencyPlayerTables == PlayerTables \cup RepeatPlayerTables

InitEfficiency ==
    /\ IdleSource
    /\ op = "extracted"
    /\ schedule_data \in Schedules
    /\ coach_pbp_data \in {PlayKinds, SubSeq(PlayKinds, 1, 3)}
    /\ player_grades \in EfficiencyPlayerTables
    /\ coaching_data = ExtractedCoaches(schedule_data)
    /\ call = None
    /\ grades = None
    /\ IdleScore
    /\ IdleGrader
    /\ IdleLine

EfficiencyLeaders ==
    /\ op = "extracted"
    /\ \E season \in Seasons :
           /\ call' = [season |-> season]
           /\ grades' \in get_coaching_efficiency_leaders(
                              coach_pbp_data, coaching_data, player_grades,
                              season)
    /\ op' = "leaders"
    /\ UNCHANGED <<schedule_data, coaching_data, coach_pbp_data,
                   player_grades, notCoachVars>>

NextEfficiency == EfficiencyLeaders

SpecEfficiency == InitEfficiency /\ [][NextEfficiency]_vars

\* the rows of the frame the call returned
LeaderRows ==
    IF op = "leaders" /\ grades # None
    THEN {grades.efficiency_df[i] : i \in 1..Len(grades.efficiency_df)}
    ELSE {}

---------------------------------------------------------------------------
(* The Sportradar collector: per-play accumulation of player statistics.   *)

\* stats[counter] = stats.get(counter, 0) + amount
Accumulate(stats, counter, amount) ==
    (counter :> (Get(stats, counter, 0) + amount)) @@ stats

\* stats[pairs[i][1]] += stat.get(pairs[i][2], 0), for every pair from i on
RECURSIVE AccumulateAll(_, _, _, _)
AccumulateAll(stats, stat, pairs, i) ==
    IF i > Len(pairs) THEN stats
    ELSE AccumulateAll(Accumulate(stats, pairs[i][1],
                                  Get(stat, pairs[i][2], 0)),
                       stat, pairs, i + 1)

\* play_nullified or stat.get('nullified', False)
Nullified(stat, play_nullified) ==
    play_nullified \/ Get(stat, "nullified", FALSE)

\* _process_passing_stats that credits nullified statistics too
_process_passing_stats_crediting_nullified(stats, stat, play_nullified) ==
    LET counted == AccumulateAll(
        stats, stat,
        << <<"completions", "complete">>, <<"attempts", "attempt">>,
           <<"passing_yards", "yards">>, <<"passing_tds", "touchdown">>,
           <<"interceptions", "interception">>, <<"sacks", "sack">>,
           <<"sack_yards", "sack_yards">>, <<"passing_air_yards", "att_yards">>,
           <<"passing_first_downs", "firstdown">>,
           <<"passing_2pt_conversions", "two_point_conv">> >>,
        1)
    IN  IF Get(stat, "yards", 0) # 0 /\ Get(stat, "att_yards", 0) # 0
        THEN Accumulate(counted, "passing_yards_after_catch",
                        stat["yards"] - stat["att_yards"])
        ELSE counted

_process_passing_stats(stats, stat, play_nullified) ==
    IF Nullified(stat, play_nullified) THEN stats
    ELSE LET counted == AccumulateAll(
        stats, stat,
        << <<"completions", "complete">>, <<"attempts", "attempt">>,
           <<"passing_yards", "yards">>, <<"passing_tds", "touchdown">>,
           <<"interceptions", "interception">>, <<"sacks", "sack">>,
           <<"sack_yards", "sack_yards">>, <<"passing_air_yards", "att_yards">>,
           <<"passing_first_downs", "firstdown">>,
           <<"passing_2pt_conversions", "two_point_conv">> >>,
        1)
         IN  IF Get(stat, "yards", 0) # 0 /\ Get(stat, "att_yards", 0) # 0
             THEN Accumulate(counted, "passing_yards_after_catch",
                             stat["yards"] - stat["att_yards"])
             ELSE counted

_process_rushing_stats(stats, stat, play_nullified) ==
    IF Nullified(stat, play_nullified) THEN stats
    ELSE AccumulateAll(
        stats, stat,
        << <<"carries", "attempt">>, <<"rushing_yards", "yards">>,
           <<"rushing_tds", "touchdown">>,
           <<"rushing_first_downs", "firstdown">>,
           <<"rushing_2pt_conversions", "two_point_conv">> >>,
        1)

_process_receiving_stats(stats, stat, play_nullified) ==
    IF Nullified(stat, play_nullified) THEN stats
    ELSE LET counted == AccumulateAll(
        stats, stat,
        << <<"receptions", "reception">>, <<"targets", "target">>,
           <<"receiving_yards", "yards">>, <<"receiving_tds", "touchdown">>,
           <<"receiving_first_downs", "firstdown">>,
           <<"receiving_2pt_conversions", "two_point_conv">>,
           <<"receiving_yards_after_catch", "yards_after_catch">> >>,
        1)
         IN  IF Get(stat, "yards", 0) # 0
                /\ Get(stat, "yards_after_catch", 0) # 0
             THEN Accumulate(counted, "receiving_air_yards",
                             stat["yards"] - stat["yards_after_catch"])
             ELSE counted

_process_fumble_stats(stats, stat, play_nullified) ==
    IF Nullified(stat, play_nullified) THEN stats
    ELSE IF Get(stat, "lost", 0) # 0
    THEN Accumulate(Accumulate(stats, "rushing_fumbles_lost", 1),
                    "rushing_fumbles", 1)
    ELSE stats

_process_defense_stats(stats, stat, play_nullified) ==
    IF Nullified(stat, play_nullified) THEN stats
    ELSE AccumulateAll(
        stats, stat,
        << <<"tackles", "tackle">>, <<"assists", "ast_tackle">>,
           <<"sacks_made", "sack">> >>,
        1)

\* a detail of category 'penalty' whose penalty has no_play set
play_nullified_of(play) ==
    \E i \in 1..Len(play.details) :
        /\ play.details[i].category = "penalty"
        /\ play.details[i].no_play

\* the body of `for stat in statistics` for one stat: the collector's
\* player_stats and player_metadata after it
ProcessStat(collector, stat, play_nullified, season, week) ==
    IF stat.player.id = Missing THEN collector
    ELSE LET player_id == stat.player.id
             key == <<player_id, season, week, stat.team>>
             metadata ==
                 IF player_id \in DOMAIN collector.player_metadata
                 THEN collector.player_metadata
                 ELSE (player_id :>
                          [player_id |-> player_id,
                           player_name |-> stat.player.name,
                           player_display_name |-> stat.player.name,
                           position |-> stat.player.position,
                           recent_team |-> stat.team,
                           sr_id |-> Get(stat.player, "sr_id", "")])
                      @@ collector.player_metadata
             stats == Get(collector.player_stats, key, <<>>)
             updated ==
                 CASE stat.stat_type = "pass" ->
                          _process_passing_stats(stats, stat, play_nullified)
                   [] stat.stat_type = "rush" ->
                          _process_rushing_stats(stats, stat, play_nullified)
                   [] stat.stat_type = "receive" ->
                          _process_receiving_stats(stats, stat,
                                                   play_nullified)
                   [] stat.stat_type = "fumble" ->
                          _process_fumble_stats(stats, stat, play_nullified)
                   [] stat.stat_type = "defense" ->
                          _process_defense_stats(stats, stat, play_nullified)
                   [] OTHER -> stats
         IN  [player_stats |-> (key :> updated) @@ collector.player_stats,
              player_metadata |-> metadata]

RECURSIVE ProcessStatistics(_, _, _, _, _, _)
ProcessStatistics(collector, statistics, i, play_nullified, season, week) ==
    IF i > Len(statistics) THEN collector
    ELSE ProcessStatistics(
             ProcessStat(collector, statistics[i], play_nullified, season,
                         week),
             statistics, i + 1, play_nullified, season, week)

\* process_play_statistics(play, game_info, week)
process_play_statistics(collector, play, season, week) ==
    IF ~play.official THEN collector
    ELSE ProcessStatistics(collector, play.statistics, 1,
                           play_nullified_of(play), season, week)

StatColumns ==
    {"completions", "attempts", "passing_yards", "passing_tds",
     "interceptions", "sacks", "sack_yards", "sack_fumbles",
     "sack_fumbles_lost", "passing_air_yards", "passing_yards_after_catch",
     "passing_first_downs", "passing_2pt_conversions", "carries",
     "rushing_yards", "rushing_tds", "rushing_fumbles",
     "rushing_fumbles_lost", "rushing_first_downs",
     "rushing_2pt_conversions", "receptions", "targets", "receiving_yards",
     "receiving_tds", "receiving_fumbles", "receiving_fumbles_lost",
     "receiving_air_yards", "receiving_yards_after_catch",
     "receiving_first_downs", "receiving_2pt_conversions"}

\* the row convert_to_dataframe builds for one key of player_stats
DataframeRow(key, stats, player_meta) ==
    [c \in StatColumns |-> Get(stats, c, 0)]
    @@ [player_id |-> key[1],
        player_name |-> Get(player_meta, "player_name", ""),
        player_display_name |-> Get(player_meta, "player_display_name", ""),
        position |-> Get(player_meta, "position", ""),
        recent_team |-> key[4], season |-> key[2], week |-> key[3],
        season_type |-> "REG",
        racr |-> IF Get(stats, "receiving_yards", 0) > 0
                    /\ Get(stats, "receiving_air_yards", 0) > 0
                 THEN Frac(stats["receiving_yards"],
                           stats["receiving_air_yards"])
                 ELSE R(0),
        pacr |-> IF Get(stats, "passing_yards", 0) > 0
                    /\ Get(stats, "passing_yards_after_catch", 0) > 0
                 THEN Frac(stats["passing_yards_after_catch"],
                           stats["passing_yards"])
                 ELSE R(0)]

\* convert_to_dataframe: one row per key of player_stats; the three share
\* columns exist when a row has targets, and are NaN on the other rows
convert_to_dataframe(collector) ==
    LET rows == { DataframeRow(key, collector.player_stats[key],
                               Get(collector.player_metadata, key[1], <<>>)) :
                  key \in DOMAIN collector.player_stats }
        shares == \E r \in rows : r["targets"] > 0
    IN  { (IF shares
           THEN [c \in {"target_share", "air_yards_share", "wopr"} |->
                    IF r["targets"] > 0 THEN R(0) ELSE NaN]
           ELSE <<>>)
          @@ r
          @@ [c \in {"opponent_team", "gsis_id", "position_x", "position_group",
                   "headshot_url", "passing_epa", "rushing_epa",
                   "receiving_epa", "dakota", "special_teams_tds",
                   "fantasy_points", "fantasy_points_ppr", "game_id",
                   "pfr_game_id", "game_type", "pfr_player_id"} |-> NaN] :
          r \in rows }

---------------------------------------------------------------------------
(* One week of play events processed by a collector, then converted.       *)

MaxSrPlays == 2

SrPlayer(id, name, position) ==
    [id |-> id, name |-> name, position |-> position]

SrQB == SrPlayer("sr-qb", "P.Mahomes", "QB")
SrRB == SrPlayer("sr-rb", "I.Pacheco", "RB")
SrWR == SrPlayer("sr-wr", "R.Rice", "WR")
SrLB == SrPlayer("sr-lb", "A.Anzalone", "LB")

PassStat(nullified) ==
    [stat_type |-> "pass", player |-> SrQB, team |-> "KC",
     nullified |-> nullified, attempt |-> 1, complete |-> 1, yards |-> 12,
     att_yards |-> 7, touchdown |-> 1, firstdown |-> 1]

RushStat(nullified) ==
    [stat_type |-> "rush", player |-> SrRB, team |-> "KC",
     nullified |-> nullified, attempt |-> 1, yards |-> 5, firstdown |-> 0]

ReceiveStat ==
    [stat_type |-> "receive", player |-> SrWR, team |-> "KC",
     reception |-> 1, target |-> 1, yards |-> 12, yards_after_catch |-> 5,
     touchdown |-> 1, firstdown |-> 1]

FumbleStat ==
    [stat_type |-> "fumble", player |-> SrRB, team |-> "KC", lost |-> 1]

DefenseStat(nullified) ==
    [stat_type |-> "defense", player |-> SrLB, team |-> "DET",
     nullified |-> nullified, tackle |-> 1, ast_tackle |-> 0, sack |-> 1]

\* a statistic without a player id, and one of a type no processor handles
NoIdStat ==
    [stat_type |-> "rush", player |-> SrPlayer(Missing, "", ""),
     team |-> "KC", attempt |-> 1, yards |-> 3]

KickStat ==
    [stat_type |-> "kick", player |-> SrPlayer("sr-k", "H.Butker", "K"),
     team |-> "KC", yards |-> 65]

NoPlayPenalty == [category |-> "penalty", no_play |-> TRUE]

SrPlay(official, details, statistics) ==
    [official |-> official, details |-> details, statistics |-> statistics]

\* play events: counted plays, plays with nullified statistics, plays
\* wiped out by a no_play penalty, and unofficial plays
SrPlays ==
    { SrPlay(TRUE, <<>>, statistics) :
        statistics \in { <<PassStat(FALSE)>>, <<PassStat(TRUE)>>,
                         <<RushStat(FALSE)>>, <<RushStat(TRUE)>>,
                         <<FumbleStat>>, <<DefenseStat(FALSE)>>,
                         <<DefenseStat(TRUE)>>,
                         <<PassStat(FALSE), ReceiveStat>>,
                         <<NoIdStat>>, <<KickStat>> } }
    \cup { SrPlay(TRUE, <<NoPlayPenalty>>, statistics) :
             statistics \in { <<PassStat(FALSE), ReceiveStat>>,
                              <<RushStat(FALSE)>>, <<FumbleStat>>,
                              <<DefenseStat(FALSE)>> } }
    \cup { SrPlay(FALSE, <<>>, statistics) :
             statistics \in { <<PassStat(FALSE)>>, <<DefenseStat(FALSE)>> } }

\* the collector's two dicts
Collector ==
    [player_stats |-> player_stats, player_metadata |-> player_metadata]

InitCollector ==
    /\ op = "collecting"
    /\ player_stats = <<>>
    /\ player_metadata = <<>>
    /\ play_count = 0
    /\ request \in {[season |-> 2025, week |-> w, events |-> <<>>] :
                       w \in {1, 2}}
    /\ response = None
    /\ player_grader = None /\ attempt = 0 /\ requests_made = <<>>
    /\ line_pbp = <<>> /\ line_snap_counts = {} /\ returned = <<>>
    /\ IdleScore
    /\ IdleGrader
    /\ IdleCoach

\* one play event of process_game: process_play_statistics, play_count += 1
ProcessPlay ==
    /\ op = "collecting"
    /\ play_count < MaxSrPlays
    /\ \E play \in SrPlays :
           \E after \in {process_play_statistics(Collector, play,
                                                 request.season,
                                                 request.week)} :
               /\ player_stats' = after.player_stats
               /\ player_metadata' = after.player_metadata
               /\ request' = [request EXCEPT !.events = Append(@, play)]
    /\ play_count' = play_count + 1
    /\ UNCHANGED <<op, response, player_grader, attempt, requests_made,
                   line_pbp, line_snap_counts, returned, scoreVars,
                   graderVars, coachVars>>

ConvertToDataframe ==
    /\ op = "collecting"
    /\ op' = "converted"
    /\ response' = convert_to_dataframe(Collector)
    /\ UNCHANGED <<request, sourceVars, line_pbp, line_snap_counts, returned,
                   scoreVars, graderVars, coachVars>>

NextCollector == ProcessPlay \/ ConvertToDataframe

SpecCollector == InitCollector /\ [][NextCollector]_vars

AllCounters == StatColumns \cup {"tackles", "assists", "sacks_made"}

\* the value convert_to_dataframe would read for a counter of a key
CounterOf(stats_by_key, key, counter) ==
    Get(Get(stats_by_key, key, <<>>), counter, 0)

\* a play with a no_play penalty, or whose statistics are all nullified
SuppressedPlay(play) ==
    \/ play_nullified_of(play)
    \/ \A i \in 1..Len(play.statistics) :
           Get(play.statistics[i], "nullified", FALSE)

\* C22: processing a play that carries a no_play penalty, or statistics
\* flagged nullified, leaves every counter of every player key unchanged,
\* and an unofficial play changes nothing in the collector.
C22_NullifiedPlayLeavesCounters ==
    [][ play_count' = play_count + 1 =>
            LET play == request'.events[Len(request'.events)]
            IN  /\ SuppressedPlay(play) \/ ~play.official =>
                       \A key \in DOMAIN player_stats', c \in AllCounters :
                           CounterOf(player_stats', key, c)
                               = CounterOf(player_stats, key, c)
                /\ ~play.official =>
                       UNCHANGED <<player_stats, player_metadata>> ]_vars

\* a pass play wiped out by a no_play penalty was processed after a counted
\* pass play, and the quarterback still has one completion
C22_Witness ==
    /\ op = "collecting"
    /\ play_count = 2
    /\ play_nullified_of(request.events[2])
    /\ request.events[2].statistics[1].stat_type = "pass"
    /\ ~play_nullified_of(request.events[1])
    /\ CounterOf(player_stats, <<"sr-qb", 2025, request.week, "KC">>,
                 "completions") = 1

\* the player keys named by a statistic that was not nullified, on an
\* official play without a no_play penalty
CreditedKeys ==
    { <<play.statistics[i].player.id, request.season, request.week,
        play.statistics[i].team>> :
      <<play, i>> \in
          { pi \in UNION { {<<request.events[n], j>> :
                                j \in 1..Len(request.events[n].statistics)} :
                           n \in 1..Len(request.events) } :
              /\ pi[1].official
              /\ ~play_nullified_of(pi[1])
              /\ ~Get(pi[1].statistics[pi[2]], "nullified", FALSE)
              /\ pi[1].statistics[pi[2]].player.id # Missing } }

\* C27: the frame of convert_to_dataframe has a row only for a (player,
\* season, week, team) key that received credit from a statistic that was
\* not nullified.
C27_RowsOnlyForCreditedKeys ==
    op = "converted" =>
        \A r \in response :
            <<r.player_id, r.season, r.week, r.recent_team>> \in CreditedKeys

---------------------------------------------------------------------------
(* The coach-season records after extract_coaching_info.                   *)

\* extract_coaching_info adding to the records the instance already holds
CallExtract_into_held_records(self) ==
    [self |->
         [self EXCEPT !.coaching_data =
             ExtractRows(self.schedule_data, 1, self.coaching_data)],
     result |-> None]

\* extract_coaching_info: coaches = {} is filled from the schedule and
\* assigned to self.coaching_data
CallExtract(self) ==
    [self |->
         [self EXCEPT !.coaching_data =
             ExtractRows(self.schedule_data, 1, <<>>)],
     result |-> None]

CallAnalyzeOffense(self, coach_name, season) ==
    [self |-> self,
     result |-> analyze_offensive_tendencies(
                    self.pbp_data, self.coaching_data, coach_name, NoTeam,
                    season)]

CallAnalyzeDefense(self, coach_name, season) ==
    [self |-> self,
     result |-> analyze_defensive_performance(
                    self.pbp_data, self.coaching_data, coach_name, NoTeam,
                    season)]

\* compare_coaches_with_roster_context and print_roster_aware_coach_report
\* print what the grading calls return, and return None
RECURSIVE CompareSelf(_, _, _, _)
CompareSelf(self, coach_names, i, season) ==
    IF i > Len(coach_names) THEN self
    ELSE CompareSelf(
             CallGradeCoach(
                 CallAdjustCoach(self, coach_names[i], season).self,
                 coach_names[i], season).self,
             coach_names, i + 1, season)

CallCompare(self, coach_names, season) ==
    [self |-> CompareSelf(self, coach_names, 1, season), result |-> None]

CallReport(self, coach_name, season) ==
    [self |-> CallAdjustCoach(self, coach_name, season).self,
     result |-> None]

InitRecords ==
    /\ IdleSource
    /\ op = "loaded"
    /\ schedule_data \in Schedules
    /\ coach_pbp_data = PlayKinds
    /\ player_grades \in RepeatPlayerTables
    /\ coaching_data = <<>>
    /\ call = None
    /\ grades = None
    /\ IdleScore
    /\ IdleGrader
    /\ IdleLine

\* a method of the analytics instance called after the first
\* extract_coaching_info
RecordsCall(method, args, out) ==
    /\ op \in {"extracted", "records"}
    /\ Len(returned) < MaxCalls
    /\ op' = "records"
    /\ call' = args
    /\ grades' = out.result
    /\ SelfBecomes(out.self)
    /\ returned' = Append(returned, [method |-> method, args |-> args])
    /\ UNCHANGED <<request, response, scoreVars, graderVars, sourceVars>>

ExtractAgain ==
    RecordsCall("extract_coaching_info", None, CallExtract(Self))

AnalyzeOffense ==
    RecordsCall("analyze_offensive_tendencies",
                [coach_name |-> "Andy Reid", season |-> 2023],
                CallAnalyzeOffense(Self, "Andy Reid", 2023))

AnalyzeDefense ==
    RecordsCall("analyze_defensive_performance",
                [coach_name |-> "Andy Reid", season |-> 2023],
                CallAnalyzeDefense(Self, "Andy Reid", 2023))

GradeAfterExtract ==
    RecordsCall("grade_coach_performance",
                [coach_name |-> "Andy Reid", season |-> 2023],
                CallGradeCoach(Self, "Andy Reid", 2023))

AdjustAfterExtract ==
    \E coach_name \in RepeatCoaches :
        RecordsCall("calculate_roster_adjusted_coaching_grade",
                    [coach_name |-> coach_name, season |-> 2023],
                    CallAdjustCoach(Self, coach_name, 2023))

CompareCoaches ==
    RecordsCall("compare_coaches_with_roster_context",
                [coach_names |-> <<"Andy Reid", "Joe Nobody">>,
                 season |-> 2023],
                CallCompare(Self, <<"Andy Reid", "Joe Nobody">>, 2023))

CoachReport ==
    RecordsCall("print_roster_aware_coach_report",
                [coach_name |-> "Andy Reid", season |-> 2023],
                CallReport(Self, "Andy Reid", 2023))

NextRecords ==
    \/ extract_coaching_info
    \/ ExtractAgain
    \/ AnalyzeOffense
    \/ AnalyzeDefense
    \/ GradeAfterExtract
    \/ AdjustAfterExtract
    \/ CompareCoaches
    \/ CoachReport

SpecRecords == InitRecords /\ [][NextRecords]_vars

---------------------------------------------------------------------------
(* The overall grade of NFLCoachingAnalytics.grade_coach_performance.      *)

\* the weight of a unit's overall grade: 0.6 for the coach's own unit
UnitWeight(coach_specialty, unit) ==
    IF coach_specialty = unit THEN Frac(6, 10) ELSE Frac(5, 10)

\* grades.get(key) is present and true
HasOverall(unit_overalls, key) ==
    key \in DOMAIN unit_overalls /\ Truthy(unit_overalls[key])

\* overall_components: the weighted unit grades, offence first
overall_components(coach_specialty, unit_overalls) ==
    (IF HasOverall(unit_overalls, "offensive_overall")
     THEN <<Mul(unit_overalls["offensive_overall"],
                UnitWeight(coach_specialty, "offense"))>>
     ELSE <<>>)
    \o (IF HasOverall(unit_overalls, "defensive_overall")
        THEN <<Mul(unit_overalls["defensive_overall"],
                   UnitWeight(coach_specialty, "defense"))>>
        ELSE <<>>)

\* the divisor: one term per component, 0.6 for a specialist and 0.5 for a
\* balanced coach
ComponentDivisor(coach_specialty, components) ==
    Mul(R(Len(components)),
        IF coach_specialty \in {"offense", "defense"}
        THEN Frac(6, 10) ELSE Frac(5, 10))

RECURSIVE SumComponents(_, _)
SumComponents(components, i) ==
    IF i > Len(components) THEN R(0)
    ELSE Add(components[i], SumComponents(components, i + 1))

\* the grades with the overall grade, when a unit grade is present
NormalizedOverall(coach_name, season, unit_overalls) ==
    LET coach_specialty == _determine_coach_specialty(coach_name, season)
        components == overall_components(coach_specialty, unit_overalls)
    IN  unit_overalls
        @@ KeyIf(components # <<>>, "overall",
                 Div(SumComponents(components, 1),
                     ComponentDivisor(coach_specialty, components)))

BlendCoaches == {"Andy Reid", "Bill Belichick", "Joe Nobody"}

\* unit grades from 55 to 95
BlendScores == {R(55), R(65), R(80), R(95)}

BlendUnits ==
    {<<>>}
    \cup {[offensive_overall |-> o] : o \in BlendScores}
    \cup {[defensive_overall |-> d] : d \in BlendScores}
    \cup {[offensive_overall |-> o, defensive_overall |-> d] :
            o \in BlendScores, d \in BlendScores}

InitBlend ==
    /\ IdleSource
    /\ op = "units"
    /\ request \in {[coach_name |-> c, season |-> 2023, grades |-> u] :
                      c \in BlendCoaches, u \in BlendUnits}
    /\ response = None
    /\ line_pbp = <<>> /\ line_snap_counts = {} /\ returned = <<>>
    /\ IdleScore
    /\ IdleGrader
    /\ IdleCoach

\* the last step of NFLCoachingAnalytics.grade_coach_performance
BlendOverall ==
    /\ op = "units"
    /\ op' = "blended"
    /\ response' = NormalizedOverall(request.coach_name, request.season,
                                     request.grades)
    /\ UNCHANGED <<request, line_pbp, line_snap_counts, returned>>
    /\ UNCHANGED notLineVars

NextBlend == BlendOverall

SpecBlend == InitBlend /\ [][NextBlend]_vars

\* the unit grades present in the response, with their weights
PresentUnits ==
    {u \in {<<"offensive_overall", "offense">>,
            <<"defensive_overall", "defense">>} :
        u[1] \in DOMAIN response}

\* C24: the overall grade is the sum of weight * component over the present
\* components divided by the sum of the same weights, for every specialty
\* and with one or both components present, and so lies between the
\* smallest and the largest present component.
C24_OverallIsWeightedMean ==
    (op = "blended" /\ PresentUnits # {}) =>
        LET coach_specialty ==
                _determine_coach_specialty(request.coach_name,
                                           request.season)
            weighted == overall_components(coach_specialty, request.grades)
            weights ==
                (IF "offensive_overall" \in DOMAIN response
                 THEN <<UnitWeight(coach_specialty, "offense")>> ELSE <<>>)
                \o (IF "defensive_overall" \in DOMAIN response
                    THEN <<UnitWeight(coach_specialty, "defense")>>
                    ELSE <<>>)
        IN  /\ "overall" \in DOMAIN response
            /\ response.overall =
                   Div(SumComponents(weighted, 1), SumComponents(weights, 1))
            /\ \E u \in PresentUnits : Le(response[u[1]], response.overall)
            /\ \E u \in PresentUnits : Le(response.overall, response[u[1]])

---------------------------------------------------------------------------
(* calculate_player_grades: the per-player season table that the roster   *)
(* adjustment reads, built from what the player grader returns.            *)

\* a Python dict, and a pandas DataFrame of rows
PyDict(items) == [type |-> "dict", items |-> items]
DataFrame(rows) == [type |-> "DataFrame", rows |-> rows]

\* obj.empty: a DataFrame has the attribute; for a dict the read raises
\* AttributeError
AttrEmpty(obj) ==
    IF obj.type = "DataFrame"
    THEN [raised |-> FALSE, value |-> obj.rows = {}]
    ELSE [raised |-> TRUE, value |-> "AttributeError"]

\* player_grader.calculate_all_grades(min_games=min_games): the dict of
\* grade tables
GraderAllGrades(self, min_games) ==
    PyDict(CallAllGrades(self, min_games).result)

RECURSIVE SumNumericGrades(_)
SumNumericGrades(rows) ==
    IF rows = {} THEN R(0)
    ELSE LET r == CHOOSE r \in rows : TRUE
         IN  Add(r.numeric_grade, SumNumericGrades(rows \ {r}))

\* all_grades.groupby([...]).agg({'numeric_grade': 'mean', 'week': 'count'})
\* merged on player_id with the first team of the roster rows
player_season_grades(rows, rosters) ==
    [id \in {r.player_id : r \in rows} |->
        LET mine == {r \in rows : r.player_id = id}
            first == CHOOSE r \in mine : TRUE
        IN  [player_id |-> id,
             position_group |-> first.position_group,
             avg_grade |-> Div(SumNumericGrades(mine),
                               R(Cardinality(mine))),
             games_played |-> Cardinality(mine),
             season |-> IF id \in DOMAIN rosters
                        THEN rosters[id].season ELSE NoSeason,
             primary_team |-> IF id \in DOMAIN rosters
                              THEN rosters[id].team ELSE Missing]]

\* the instance after the call and what the call returned; an exception
\* raised in the try block is caught and None returned
calculate_player_grades(self, grader, min_games) ==
    IF grader = None THEN [self |-> self, result |-> None]
    ELSE LET all_grades == GraderAllGrades(self, min_games)
             empty == AttrEmpty(all_grades)
         IN  IF empty.raised THEN [self |-> self, result |-> None]
             ELSE IF empty.value THEN [self |-> self, result |-> None]
             ELSE [self |->
                       [self EXCEPT !.player_grades =
                           player_season_grades(all_grades.rows,
                                                grader.rosters)],
                   result |-> player_season_grades(all_grades.rows,
                                                   grader.rosters)]

\* the player grader load_data constructed, or None when its construction
\* raised
PlayerGraders ==
    { None,
      [years |-> <<2023>>,
       rosters |-> ("J.Taylor" :> [season |-> 2023, team |-> "KC"])] }

InitPlayerGrades ==
    /\ player_stats = <<>> /\ player_metadata = <<>> /\ play_count = 0
    /\ attempt = 0 /\ requests_made = <<>>
    /\ player_grader \in PlayerGraders
    /\ op = "extracted"
    /\ coach_pbp_data \in {PlayKinds, SubSeq(PlayKinds, 1, 3)}
    /\ schedule_data = ScheduleGames
    /\ coaching_data = ExtractedCoaches(schedule_data)
    /\ player_grades = None
    /\ line_pbp \in RepeatLineTables \cup {<<>>}
    /\ line_snap_counts \in RepeatSnapTables
    /\ call = None
    /\ grades = None
    /\ request = None
    /\ response = None
    /\ returned = <<>>
    /\ IdleScore
    /\ IdleGrader

\* analytics.calculate_player_grades(min_games)
CalculatePlayerGrades ==
    /\ op = "extracted"
    /\ op' = "player_grades"
    /\ \E min_games \in {1, DefaultMinGames} :
           \E out \in {calculate_player_grades(Self, player_grader,
                                               min_games)} :
               /\ request' = [min_games |-> min_games]
               /\ response' = out.result
               /\ SelfBecomes(out.self)
    /\ UNCHANGED <<call, grades, returned, scoreVars, graderVars,
                   sourceVars>>

\* analytics.calculate_roster_adjusted_coaching_grade(coach_name, season)
\* after calculate_player_grades
AdjustAfterPlayerGrades ==
    /\ op = "player_grades"
    /\ op' = "adjusted"
    /\ \E coach_name \in RepeatCoaches, season \in {2023} :
           \E out \in {CallAdjustCoach(Self, coach_name, season)} :
               /\ call' = [coach_name |-> coach_name, season |-> season]
               /\ grades' = out.result
               /\ SelfBecomes(out.self)
    /\ UNCHANGED <<request, response, returned, scoreVars, graderVars,
                   sourceVars>>

NextPlayerGrades == CalculatePlayerGrades \/ AdjustAfterPlayerGrades

SpecPlayerGrades == InitPlayerGrades /\ [][NextPlayerGrades]_vars

\* the grade records the player grader produces for min_games
ProducedGradeRecords(min_games) ==
    LET tables == CallAllGrades(Self, min_games).result
    IN  UNION {DOMAIN tables.team_oline_grades,
               DOMAIN tables.team_dline_grades}

\* C25: whenever the player grader produces a grade record,
\* calculate_player_grades returns a per-player season table and stores it
\* in player_grades, and a later calculate_roster_adjusted_coaching_grade
\* that returns grades returns them with a roster_context.
C25_PlayerGradesStored ==
    (/\ op \in {"player_grades", "adjusted"}
     /\ player_grader # None
     /\ ProducedGradeRecords(request.min_games) # {}) =>
        /\ response # None
        /\ player_grades = response
        /\ (op = "adjusted" /\ call.coach_name = "Andy Reid") =>
               (grades # None /\ "roster_context" \in DOMAIN grades)

---------------------------------------------------------------------------
(* The results of the game entries extract_coaching_info creates.          *)

\* the schedule rows, a tied game and a game with one score not yet known
ResultGames ==
    ScheduleGames
    \o << [game_id |-> "2023_04_DET_NE", season |-> 2023, week |-> 4,
           home_team |-> "NE", away_team |-> "DET",
           home_coach |-> "Bill Belichick", away_coach |-> "Dan Campbell",
           home_score |-> 20, away_score |-> 20],
          [game_id |-> "2023_05_KC_DET", season |-> 2023, week |-> 5,
           home_team |-> "DET", away_team |-> "KC",
           home_coach |-> "Dan Campbell", away_coach |-> "Andy Reid",
           home_score |-> 7, away_score |-> MissingNumber] >>

InitResults ==
    /\ IdleSource
    /\ op = "loaded"
    /\ schedule_data \in Selections(ResultGames, 1, MaxGames, 1)
    /\ coach_pbp_data = <<>>
    /\ player_grades = None
    /\ coaching_data = <<>>
    /\ call = None
    /\ grades = None
    /\ IdleScore
    /\ IdleGrader
    /\ IdleLine

\* analytics._get_team_record(coach_name, season)
TeamRecord ==
    /\ op = "extracted"
    /\ op' = "record"
    /\ \E coach_name \in Coaches, season \in Seasons :
           /\ call' = [coach_name |-> coach_name, season |-> season]
           /\ grades' = _get_team_record(coaching_data, coach_name, season)
    /\ UNCHANGED <<schedule_data, coaching_data, coach_pbp_data,
                   player_grades, notCoachVars>>

NextResults == extract_coaching_info \/ TeamRecord

SpecResults == InitResults /\ [][NextResults]_vars

\* where the entries of a game are: coach-season i, game j
GameEntries(cd, game_id) ==
    {ij \in (DOMAIN cd) \X (1..MaxGames) :
        /\ ij[2] <= Len(cd[ij[1]].games)
        /\ cd[ij[1]].games[ij[2]].game_id = game_id}

AllEntries(cd) ==
    {ij \in (DOMAIN cd) \X (1..MaxGames) : ij[2] <= Len(cd[ij[1]].games)}

BothCoachesNamed(game) ==
    /\ game.home_coach # Missing /\ game.home_team # Missing
    /\ game.away_coach # Missing /\ game.away_team # Missing

\* C26: a schedule game with both scores and both coaches named gets two
\* entries with opposite results, one W and one L; an entry has result
\* None exactly when a score is missing; so when every game has both
\* coaches named the wins of all coaches equal their losses.
C26_OppositeResults ==
    op \in {"extracted", "record"} =>
        /\ \A k \in DOMAIN schedule_data :
               LET game == schedule_data[k]
                   entries == GameEntries(coaching_data, game.game_id)
               IN  (/\ BothCoachesNamed(game)
                    /\ game.home_score # MissingNumber
                    /\ game.away_score # MissingNumber) =>
                       /\ Cardinality(entries) = 2
                       /\ {coaching_data[ij[1]].games[ij[2]].result :
                              ij \in entries} = {"W", "L"}
        /\ \A ij \in AllEntries(coaching_data) :
               LET entry == coaching_data[ij[1]].games[ij[2]]
               IN  entry.result = "None" <=>
                       (entry.score = MissingNumber
                        \/ entry.opp_score = MissingNumber)
        /\ (\A k \in DOMAIN schedule_data :
                BothCoachesNamed(schedule_data[k])) =>
               Cardinality({ij \in AllEntries(coaching_data) :
                   coaching_data[ij[1]].games[ij[2]].result = "W"})
               = Cardinality({ij \in AllEntries(coaching_data) :
                   coaching_data[ij[1]].games[ij[2]].result = "L"})

---------------------------------------------------------------------------
(* The player grader main.py caches in the global player_grader.           *)

MaxGraderCalls == 4

\* the years lists requests carry
YearLists == {<<2023>>, <<2024>>, <<2023, 2024>>}

\* EnhancedNFLPlayerGrader(years=years): a new instance, told apart from
\* the earlier ones by its number
EnhancedNFLPlayerGrader(years, number) ==
    [years |-> years, instance |-> number]

\* getattr(player_grader, 'years', None)
GraderYears(grader) ==
    IF "years" \in DOMAIN grader THEN grader.years ELSE None

\* get_player_grader that constructs a grader only when none is cached
get_player_grader_ignoring_years(cached, years, number) ==
    IF cached = None
    THEN [player_grader |-> EnhancedNFLPlayerGrader(years, number),
          result |-> EnhancedNFLPlayerGrader(years, number)]
    ELSE [player_grader |-> cached, result |-> cached]

\* the global after the call and the grader returned
get_player_grader(cached, years, number) ==
    IF cached = None \/ GraderYears(cached) # years
    THEN [player_grader |-> EnhancedNFLPlayerGrader(years, number),
          result |-> EnhancedNFLPlayerGrader(years, number)]
    ELSE [player_grader |-> cached, result |-> cached]

InitCache ==
    /\ player_stats = <<>> /\ player_metadata = <<>> /\ play_count = 0
    /\ attempt = 0 /\ requests_made = <<>>
    /\ player_grader = None
    /\ op = "started"
    /\ IdleScore
    /\ IdleGrader
    /\ IdleCoach
    /\ IdleLine

\* a request handler calls get_player_grader(years)
GetPlayerGrader ==
    /\ Len(returned) < MaxGraderCalls
    /\ op' = "served"
    /\ \E years \in YearLists :
           \E out \in {get_player_grader(player_grader, years,
                                         Len(returned) + 1)} :
               /\ request' = [years |-> years]
               /\ response' = out.result
               /\ player_grader' = out.player_grader
               /\ returned' = Append(returned,
                                     [method |-> "get_player_grader",
                                      args |-> request',
                                      result |-> out.result])
    /\ UNCHANGED <<line_pbp, line_snap_counts, player_stats,
                   player_metadata, play_count, attempt, requests_made,
                   scoreVars, graderVars, coachVars>>

NextCache == GetPlayerGrader

SpecCache == InitCache /\ [][NextCache]_vars

\* C28: every call of get_player_grader returns an instance whose years
\* are the requested list; a new grader is constructed only when none is
\* cached or the cached grader's years differ from the request; two
\* consecutive calls with equal years return the same instance.
C28_GraderCache ==
    [][ (op' = "served") =>
            /\ response'.years = request'.years
            /\ player_grader' = response'
            /\ (response' # player_grader) <=>
                   (player_grader = None
                    \/ player_grader.years # request'.years)
            /\ (op = "served" /\ request.years = request'.years) =>
                   response' = response ]_vars

\* three calls: the second reuses the first call's grader, the third
\* constructs a grader for other years
C28_Witness ==
    /\ Len(returned) >= 3
    /\ returned[1].args.years = returned[2].args.years
    /\ returned[1].result = returned[2].result
    /\ returned[3].args.years # returned[2].args.years
    /\ returned[3].result.instance = 3
    /\ player_grader = returned[3].result

---------------------------------------------------------------------------
(* The routes of the players router, in the order they are registered.     *)

\* a path is the sequence of its segments; a segment in braces is a path
\* parameter
routes ==
    << [methods |-> {"GET"}, path |-> <<"rosters">>,
        endpoint |-> "get_rosters"],
       [methods |-> {"GET"}, path |-> <<"stats">>,
        endpoint |-> "get_player_stats"],
       [methods |-> {"GET"}, path |-> <<"{player_id}">>,
        endpoint |-> "get_player_details"],
       [methods |-> {"GET"}, path |-> <<"grades">>,
        endpoint |-> "get_player_grades"],
       [methods |-> {"GET"}, path |-> <<"grades", "{player_name}">>,
        endpoint |-> "get_player_grade_details"] >>

PathParams == {"{player_id}", "{player_name}"}

\* a parameter matches any one segment, a literal segment only itself
PathMatches(pattern, path) ==
    /\ Len(pattern) = Len(path)
    /\ \A i \in 1..Len(pattern) :
           pattern[i] \in PathParams \/ pattern[i] = path[i]

\* the parameters a matching pattern binds
BoundParams(pattern, path) ==
    [p \in {pattern[i] : i \in {j \in 1..Len(pattern) :
                                    pattern[j] \in PathParams}} |->
        path[CHOOSE i \in 1..Len(pattern) : pattern[i] = p]]

\* the first registered route whose path and method match handles the
\* request; a path that only matches routes of other methods gets 405, a
\* path no route matches gets 404
Dispatch(routing, method, path) ==
    LET full == {i \in 1..Len(routing) :
                    /\ PathMatches(routing[i].path, path)
                    /\ method \in routing[i].methods}
        partial == {i \in 1..Len(routing) :
                       PathMatches(routing[i].path, path)}
        first == CHOOSE i \in full : \A j \in full : i <= j
    IN  IF full # {}
        THEN [status |-> 200, endpoint |-> routing[first].endpoint,
              params |-> BoundParams(routing[first].path, path)]
        ELSE IF partial # {}
        THEN [status |-> 405, endpoint |-> "", params |-> <<>>]
        ELSE [status |-> 404, endpoint |-> "", params |-> <<>>]

RouteSegments == {"rosters", "stats", "grades", "00-0033873", "P.Mahomes"}

RoutePaths ==
    {<<a>> : a \in RouteSegments}
    \cup {<<a, b>> : a \in RouteSegments, b \in RouteSegments}

InitRouter ==
    /\ IdleSource
    /\ op = "received"
    /\ request \in {[method |-> m, path |-> p] :
                      m \in {"GET", "POST"}, p \in RoutePaths}
    /\ response = None
    /\ line_pbp = <<>> /\ line_snap_counts = {} /\ returned = <<>>
    /\ IdleScore
    /\ IdleGrader
    /\ IdleCoach

\* the router dispatches the request
HandleRequest ==
    /\ op = "received"
    /\ op' = "dispatched"
    /\ response' = Dispatch(routes, request.method, request.path)
    /\ UNCHANGED <<request, line_pbp, line_snap_counts, returned>>
    /\ UNCHANGED notLineVars

NextRouter == HandleRequest

SpecRouter == InitRouter /\ [][NextRouter]_vars

\* C29: a GET for /grades is handled by get_player_grades and is not
\* captured by the /{player_id} route with player_id = 'grades'.
C29_GradesReachesGrader ==
    (/\ op = "dispatched"
     /\ request.method = "GET"
     /\ request.path = <<"grades">>) =>
        /\ response.endpoint = "get_player_grades"
        /\ response.endpoint # "get_player_details"

---------------------------------------------------------------------------
(* fetch_weekly_injuries: the three URL patterns tried in turn.            *)

\* the URL patterns, in the order of the list
url_patterns ==
    <<"seasons/REG/week/injuries", "seasons/REG/injuries",
      "league/REG/week/injuries">>

\* what requests.get and response.json() can do for one URL: a response
\* with a status code, whose body parses or not, or an exception
RequestOutcomes ==
    { [kind |-> "response", status_code |-> 200, json |-> "parsed"],
      [kind |-> "response", status_code |-> 200, json |-> "JSONDecodeError"],
      [kind |-> "response", status_code |-> 404, json |-> "parsed"],
      [kind |-> "response", status_code |-> 401, json |-> "parsed"],
      [kind |-> "response", status_code |-> 403, json |-> "parsed"],
      [kind |-> "response", status_code |-> 500, json |-> "parsed"],
      [kind |-> "Timeout", status_code |-> 0, json |-> "parsed"],
      [kind |-> "RequestException", status_code |-> 0, json |-> "parsed"] }

\* the body served at a URL
BodyOf(url) == [injuries_from |-> url]

\* a turn of the loop that moves on to the next pattern after a 401
TryUrl_continuing_after_401(url, outcome) ==
    IF outcome.kind # "response" THEN [returns |-> FALSE, value |-> None]
    ELSE IF outcome.status_code = 200
    THEN IF outcome.json = "parsed"
         THEN [returns |-> TRUE, value |-> BodyOf(url)]
         ELSE [returns |-> FALSE, value |-> None]
    ELSE IF outcome.status_code = 403
    THEN [returns |-> TRUE, value |-> None]
    ELSE [returns |-> FALSE, value |-> None]

\* one turn of the loop: the value returned, or "continue"
TryUrl(url, outcome) ==
    IF outcome.kind # "response" THEN [returns |-> FALSE, value |-> None]
    ELSE IF outcome.status_code = 200
    THEN IF outcome.json = "parsed"
         THEN [returns |-> TRUE, value |-> BodyOf(url)]
         ELSE [returns |-> FALSE, value |-> None]
    ELSE IF outcome.status_code = 404
    THEN [returns |-> FALSE, value |-> None]
    ELSE IF outcome.status_code = 401
    THEN [returns |-> TRUE, value |-> None]
    ELSE IF outcome.status_code = 403
    THEN [returns |-> TRUE, value |-> None]
    ELSE [returns |-> FALSE, value |-> None]

\* the loop from pattern i on; made holds the URLs requested so far
RECURSIVE FetchFrom(_, _, _)
FetchFrom(server, i, made) ==
    IF i > Len(url_patterns) THEN [requests_made |-> made, result |-> None]
    ELSE LET turn == TryUrl(url_patterns[i], server[i])
         IN  IF turn.returns
             THEN [requests_made |-> Append(made, url_patterns[i]),
                   result |-> turn.value]
             ELSE FetchFrom(server, i + 1, Append(made, url_patterns[i]))

fetch_weekly_injuries(server, week) == FetchFrom(server, 1, <<>>)

InitInjuries ==
    /\ player_stats = <<>> /\ player_metadata = <<>> /\ play_count = 0
    /\ player_grader = None
    /\ attempt = 0
    /\ requests_made = <<>>
    /\ op = "ready"
    /\ request \in {[week |-> 1, server |-> s] :
                      s \in [DOMAIN url_patterns -> RequestOutcomes]}
    /\ response = None
    /\ line_pbp = <<>> /\ line_snap_counts = {} /\ returned = <<>>
    /\ IdleScore
    /\ IdleGrader
    /\ IdleCoach

\* analyzer.fetch_weekly_injuries(week); attempt is the number of the last
\* attempt made
FetchWeeklyInjuries ==
    /\ op = "ready"
    /\ op' = "fetched"
    /\ \E out \in {fetch_weekly_injuries(request.server, request.week)} :
           /\ requests_made' = out.requests_made
           /\ attempt' = Len(out.requests_made)
           /\ response' = out.result
    /\ UNCHANGED <<request, line_pbp, line_snap_counts, returned,
                   player_stats, player_metadata, play_count, player_grader,
                   scoreVars, graderVars, coachVars>>

NextInjuries == FetchWeeklyInjuries

SpecInjuries == InitInjuries /\ [][NextInjuries]_vars

\* a 200 response whose body parses
Succeeds(outcome) ==
    /\ outcome.kind = "response"
    /\ outcome.status_code = 200
    /\ outcome.json = "parsed"

\* a 401 or 403 response
Denied(outcome) ==
    outcome.kind = "response" /\ outcome.status_code \in {401, 403}

\* C30: the URL patterns are requested strictly in order, at most three;
\* the body of the first 200 response is returned without a later request;
\* a 401 or 403 returns None at once; a 404, another status, a timeout, a
\* request error or a JSON decode error moves on to the next pattern; None
\* is returned when all three fail.
C30_PatternsInOrder ==
    op = "fetched" =>
        LET server == request.server
            n == Len(requests_made)
            stops == {i \in DOMAIN url_patterns :
                         Succeeds(server[i]) \/ Denied(server[i])}
        IN  /\ n \in 1..3
            /\ requests_made = SubSeq(url_patterns, 1, n)
            /\ \A i \in 1..(n - 1) : i \notin stops
            /\ n < 3 => n \in stops
            /\ response = IF Succeeds(server[n])
                          THEN BodyOf(url_patterns[n]) ELSE None

\* a 404, then a body that does not parse, then the body of the third URL
C30_Witness ==
    /\ op = "fetched"
    /\ request.server[1].status_code = 404
    /\ request.server[2].json = "JSONDecodeError"
    /\ Succeeds(request.server[3])
    /\ Len(requests_made) = 3
    /\ response = BodyOf(url_patterns[3])

=============================================================================
